---------------------------- MODULE Spec2Model ----------------------------
(***************************************************************************)
(* State-machine model of the client-side orchestration core of the AI     *)
(* Microservices dashboard (src/frontend/script.js, lines 1-1518).         *)
(*                                                                         *)
(* The components are modelled side by side, each with the variables it    *)
(* owns.  One specification per component drives that component through    *)
(* its public operations:                                                  *)
(*   SpecLoading  LoadingManager.show / hide / hideAll with any caller     *)
(*   SpecCache    APIClient.request with any request, the clock, responses *)
(*   SpecTabs     TabManager.switchTab with any id, over any tab markup    *)
(*   SpecOps      the operation handlers, the form validator and the file  *)
(*                input, driven by user events and backend responses;      *)
(*                SpecHandlers is its part without the file selection,     *)
(*                SpecFiles the file selection with the upload handler     *)
(*   SpecRender   displaySummarizationResult over any backend strings      *)
(*   SpecValidate FormValidator.validate on any field with any value       *)
(*   SpecHealth   APIClient.healthCheck and the health check made on load  *)
(*   SpecModal    ModalDialog.show / close and the close timers            *)
(*   SpecNotes    NotificationSystem.show / dismiss / clear and its timers *)
(***************************************************************************)
EXTENDS Integers, Sequences, FiniteSets, TLC

(***************************************************************************)
(* Bounds of the model.                                                    *)
(***************************************************************************)
\* Utils.generateId draws from Math.random(): the model draws from 1..NumIds.
NumIds == 3
\* Callers of LoadingManager.show that can hold a token at the same time.
NumCallers == 3
\* APIClient.request calls made in one run.
MaxCalls == 3
\* Clock advances in one run.
MaxTicks == 2
\* Handler invocations that reach the backend in one run.
MaxOps == 2
\* Characters of a backend-supplied string.
MaxStrLen == 3
\* healthCheck() calls suspended in their request at the same time.
MaxProbes == 2
\* ModalDialog.show calls in one run.
MaxModals == 5
\* Close timers of the ModalDialog pending at the same time.
MaxModalTimers == 2
\* NotificationSystem.show calls in one run.
MaxNotes == 3
\* dismiss(id) and clear() calls made from outside timers in one run.
MaxDismissCalls == 2
\* Characters of a value that is autosaved.
MaxDataLen == 1
\* Advances of the clock the autosave reads, in one run.
MaxPasses == 2
\* How far below 0 and above 100 a percentage given to update() goes.
MaxExcess == 2
\* ProgressIndicator.create calls in one run.
MaxBars == 2
\* Timers of a ProgressIndicator of one kind pending at the same time.
MaxBarTimers == 2
\* Input and change events in one run.
MaxEvents == 3
\* Waits between the events and timers of the autosave in one run.
MaxWaits == 4

(***************************************************************************)
(* Utils.generateId (script.js 105-107): '_' + Math.random()...  The value *)
(* is a random draw, so any id of the id space can come out, one that is   *)
(* live included.                                                          *)
(***************************************************************************)
Ids == 1..NumIds

\* hide() called without a loaderId: `if (loaderId)` is false (script.js 325).
NoToken == 0

VARIABLES
    loading,        \* the LoadingManager instance: [activeLoaders, hidden]
    held,           \* caller -> the token its show() returned, not yet hidden
    stale,          \* tokens whose caller has hidden them already
    now,            \* Date.now()
    ticks,          \* clock advances so far
    cache,          \* APIClient.cache: cache key -> [data, timestamp] or NoEntry
    calls,          \* request() calls suspended in fetch
    nCalls,         \* request() calls made so far
    lastCall,       \* the request() call that returned or threw last
    successes,      \* the successes of non-mutating calls, in order
    tabOrder,       \* the tab buttons of the markup, in document order
    tabs,           \* TabManager.tabs: id -> [button, content, initialized]
    activeTab,      \* TabManager.activeTab
    appActiveTab,   \* appState.activeTab
    initRuns,       \* id -> how many times initializeTab(id) has run
    legacy,         \* whether the page defines the globals the script does not
    fileInput,      \* #document-file: the file in fileInput.files[0], or NoFile
    fileInfo,       \* .file-info: the file displayed as selected, or NoFile
    ops,            \* handler invocations suspended in their remote call
    nOps,           \* handler invocations that reached the backend so far
    fieldErrors,    \* field id -> the message its validation rendered last
    fieldParent,    \* the markup: field id -> the parent element of the field
    fieldDom,       \* the fields' 'field-invalid' class, the parents' errors
    lastNote,       \* the notification shown last: [type, message]
    output,         \* the block rendered last in an output region, or NoBlock
    region,         \* #summarization-result: the strings inserted into its markup
    validated,      \* the validate(fieldId) call made last and what it returned
    validatedForm,  \* the validateForm(fieldIds) call made last and its return
    apiStatus,      \* appState.apiStatus
    indicator,      \* the text of the .api-status indicator
    banner,         \* whether the "API server not reachable" node is attached
    loaded,         \* whether the DOMContentLoaded health check has run
    probing,        \* healthCheck() calls suspended in request('/health')
    lastHealth,     \* the health check that ended last and how it ended
    modalNodes,     \* the .modal-overlay nodes attached to document.body
    activeModal,    \* ModalDialog.activeModal: a node, or NoModal
    nModals,        \* modal nodes created so far
    modalTimers,    \* pending close timers, oldest first: the modal closed
    registry,       \* NotificationSystem.notifications: id -> node or NoNode
    container,      \* the notification nodes attached to the container
    nNotes,         \* notification nodes created so far
    autoTimers,     \* pending auto-dismiss timers: [node, id]
    exitTimers,     \* pending exit-animation timers: <<node, id>> -> how many
    nDismissCalls,  \* dismiss(id) and clear() calls made from outside so far
    storage,        \* localStorage: section -> the text under its key, or NoItem
    time,           \* Date.now() as the autosave reads it
    passes,         \* advances of `time` so far
    lastLoad,       \* the loadAutoSave(section) call made last and its return
    progress,       \* ProgressIndicator.progressBar: [node, width, text, opacity]
    barsAttached,   \* the .progress-wrapper nodes attached to the container
    barTimers,      \* pending timers of the indicator: [remove, fade]
    fieldValue,     \* field -> the value the control holds
    debTimers,      \* field -> the due times of its listener's pending timers
    inputLog,       \* field -> its last event, its run of events, writes since
    nEvents         \* input and change events so far

loadVars == <<loading, held, stale>>
cacheVars == <<now, ticks, cache, calls, nCalls, lastCall, successes>>
tabVars == <<tabOrder, tabs, activeTab, appActiveTab, initRuns>>
opVars ==
    <<legacy, fileInput, fileInfo, ops, nOps, fieldErrors, fieldParent,
      fieldDom, lastNote, output>>
renderVars == <<region>>
\* The components that share no state with the four above.
validVars == <<validated, validatedForm>>
healthVars == <<apiStatus, indicator, banner, loaded, probing, lastHealth>>
modalVars == <<modalNodes, activeModal, nModals, modalTimers>>
noteVars ==
    <<registry, container, nNotes, autoTimers, exitTimers, nDismissCalls>>
saveVars == <<storage, time, passes, lastLoad>>
barVars == <<progress, barsAttached, barTimers>>
debVars == <<fieldValue, debTimers, inputLog, nEvents>>
uiVars ==
    <<renderVars, validVars, healthVars, modalVars, noteVars, saveVars,
      barVars, debVars>>
vars == <<loading, held, stale, now, ticks, cache, calls, nCalls, lastCall,
          successes, tabOrder, tabs, activeTab, appActiveTab, initRuns,
          legacy, fileInput, fileInfo, ops, nOps, fieldErrors, fieldParent,
          fieldDom, lastNote,
          output, region, validated, validatedForm, apiStatus, indicator,
          banner, loaded, probing, lastHealth, modalNodes, activeModal,
          nModals, modalTimers,
          registry, container, nNotes, autoTimers, exitTimers, nDismissCalls,
          storage, time, passes, lastLoad, progress, barsAttached,
          barTimers, fieldValue, debTimers, inputLog, nEvents>>
\* What the actions of one component leave alone.
notLoadVars == <<cacheVars, tabVars, opVars, uiVars>>
notCacheVars == <<loadVars, tabVars, opVars, uiVars>>
notTabVars == <<loadVars, cacheVars, opVars, uiVars>>
\* The handlers use the LoadingManager and the APIClient's cache and clock.
notOpVars ==
    <<held, stale, ticks, calls, nCalls, lastCall, successes, tabVars, uiVars,
      fieldParent>>
coreVars == <<loadVars, cacheVars, tabVars, opVars>>
notRenderVars ==
    <<coreVars, validVars, healthVars, modalVars, noteVars, saveVars,
      barVars, debVars>>
\* validate() writes the field's inline error.
notValidVars ==
    <<loadVars, cacheVars, tabVars, legacy, fileInput, fileInfo, ops, nOps,
      fieldParent, lastNote, output, renderVars, healthVars, modalVars,
      noteVars, saveVars, barVars, debVars>>
\* healthCheck() goes through request(): it reads and writes the cache.
notHealthVars ==
    <<loadVars, now, ticks, calls, nCalls, lastCall, successes, tabVars,
      opVars, renderVars, validVars, modalVars, noteVars, saveVars,
      barVars, debVars>>
notModalVars ==
    <<coreVars, renderVars, validVars, healthVars, noteVars, saveVars,
      barVars, debVars>>
notNoteVars ==
    <<coreVars, renderVars, validVars, healthVars, modalVars, saveVars,
      barVars, debVars>>
notSaveVars ==
    <<coreVars, renderVars, validVars, healthVars, modalVars, noteVars,
      barVars, debVars>>
notBarVars ==
    <<coreVars, renderVars, validVars, healthVars, modalVars, noteVars,
      saveVars, debVars>>
\* The debounced listeners write the storage and read the clock and the tabs.
notDebVars ==
    <<loadVars, cacheVars, opVars, renderVars, validVars, healthVars,
      modalVars, noteVars, barVars, lastLoad>>

(***************************************************************************)
(* LoadingManager (script.js 286-338).  `hidden` is the overlay's 'hidden' *)
(* class; the overlay is created with it (script.js 296).                  *)
(***************************************************************************)
LoadingManager_new == [activeLoaders |-> {}, hidden |-> TRUE]

LoadingManager_show(lm, loaderId) ==
    [activeLoaders |-> lm.activeLoaders \cup {loaderId}, hidden |-> FALSE]

\* hide() that hides the overlay without looking at the live set.
LoadingManager_hide_unconditional(lm, loaderId) ==
    [activeLoaders |-> IF loaderId # NoToken
                       THEN lm.activeLoaders \ {loaderId}
                       ELSE lm.activeLoaders,
     hidden |-> TRUE]

LoadingManager_hide(lm, loaderId) ==
    LET live == IF loaderId # NoToken
                THEN lm.activeLoaders \ {loaderId}
                ELSE lm.activeLoaders
    IN  [activeLoaders |-> live,
         hidden |-> IF Cardinality(live) = 0 THEN TRUE ELSE lm.hidden]

LoadingManager_hideAll(lm) == [activeLoaders |-> {}, hidden |-> TRUE]

Callers == 1..NumCallers
heldTokens == {held[c] : c \in Callers} \ {NoToken}

InitLoading ==
    /\ loading = LoadingManager_new
    /\ held = [c \in Callers |-> NoToken]
    /\ stale = {}

\* A caller calls show() and keeps the returned token.
LoaderShow(c) ==
    /\ held[c] = NoToken
    /\ \E id \in Ids :
        /\ loading' = LoadingManager_show(loading, id)
        /\ held' = [held EXCEPT ![c] = id]
    /\ UNCHANGED <<stale, notLoadVars>>

\* A caller hides the token its show() returned.
LoaderHide(c) ==
    /\ held[c] # NoToken
    /\ loading' = LoadingManager_hide(loading, held[c])
    /\ stale' = stale \cup {held[c]}
    /\ held' = [held EXCEPT ![c] = NoToken]
    /\ UNCHANGED notLoadVars

\* hide() with a token already hidden, an unknown token, or no token at all.
LoaderHideAgain(tok) ==
    /\ tok \in stale \cup (Ids \ heldTokens) \cup {NoToken}
    /\ loading' = LoadingManager_hide(loading, tok)
    /\ UNCHANGED <<held, stale, notLoadVars>>

\* hideAll(): every outstanding token is cleared.
LoaderHideAll ==
    /\ loading' = LoadingManager_hideAll(loading)
    /\ stale' = stale \cup heldTokens
    /\ held' = [c \in Callers |-> NoToken]
    /\ UNCHANGED notLoadVars

NextLoading ==
    \/ \E c \in Callers : LoaderShow(c)
    \/ \E c \in Callers : LoaderHide(c)
    \/ \E tok \in Ids \cup {NoToken} : LoaderHideAgain(tok)
    \/ LoaderHideAll


(***************************************************************************)
(* APIClient (script.js 704-799).                                          *)
(***************************************************************************)
\* `if (Date.now() - cached.timestamp < 300000)` (script.js 717).
TTL == 300000

\* A property the options object does not have (options.method, options.body).
Absent == "<absent>"
\* A FormData body (script.js 771-779).
FormData == "<FormData>"

\* The requests made: those of the APIClient methods (script.js 752-798) and
\* two calls of request() with the other mutating methods of the backend
\* (PUT and DELETE, script.js 1716, 1738).
Requests ==
    { [endpoint |-> "/health", options |-> [method |-> Absent, body |-> Absent]],
      [endpoint |-> "/api/learning-path/popular",
       options |-> [method |-> Absent, body |-> Absent]],
      [endpoint |-> "/api/summarize",
       options |-> [method |-> "POST", body |-> "{text}"]],
      [endpoint |-> "/api/documents/upload",
       options |-> [method |-> "POST", body |-> FormData]],
      [endpoint |-> "/api/learning-path/progress",
       options |-> [method |-> "PUT", body |-> "{pathId}"]],
      [endpoint |-> "/api/documents/collections/c",
       options |-> [method |-> "DELETE", body |-> Absent]] }

\* The decoded payloads a response can carry: {success: true, data} that the
\* handler's rendering function accepts, {success: true} with data the
\* rendering function throws on, and {success: false, error}.
Payloads == {"success", "success-malformed", "failure"}
NoData == "<none>"

\* JSON.stringify(options): an absent property is left out, a string is
\* quoted, a FormData object has no enumerable properties and gives {}.
JSON_stringify(options) ==
    [method |-> options.method,
     body |-> IF options.body = FormData THEN "{}" ELSE options.body]

\* `${url}_${JSON.stringify(options)}` (script.js 711-712).
cacheKey(req) == <<req.endpoint, JSON_stringify(req.options)>>

Keys == {cacheKey(r) : r \in Requests}

\* The requests SpecCache makes: a GET, a POST and a PUT.
CacheRequests ==
    {r \in Requests : r.endpoint \in {"/api/learning-path/popular",
                                      "/api/summarize",
                                      "/api/learning-path/progress"}}

NoEntry == [data |-> NoData, timestamp |-> -1]

\* `options.method !== 'POST'` (script.js 715, 738).
Cacheable(req) == req.options.method # "POST"

\* The freshness test with <= for <.
IsFresh_inclusive(entry, t) == t - entry.timestamp <= TTL

\* `Date.now() - cached.timestamp < 300000` (script.js 717).
IsFresh(entry, t) == t - entry.timestamp < TTL

\* The cache check of request() (script.js 715-720): the entry served, or
\* NoEntry when the call goes to the network.
CacheLookup(c, req, t) ==
    IF Cacheable(req) /\ c[cacheKey(req)] # NoEntry
       /\ IsFresh(c[cacheKey(req)], t)
    THEN c[cacheKey(req)]
    ELSE NoEntry

\* A store that keeps the entry already under the key.
CacheStore_keepFirst(c, req, data, t) ==
    IF Cacheable(req) /\ c[cacheKey(req)] = NoEntry
    THEN [c EXCEPT ![cacheKey(req)] = [data |-> data, timestamp |-> t]]
    ELSE c

\* `this.cache.set(cacheKey, {data, timestamp: Date.now()})` for a call that
\* is not a POST (script.js 738-743).
CacheStore(c, req, data, t) ==
    IF Cacheable(req)
    THEN [c EXCEPT ![cacheKey(req)] = [data |-> data, timestamp |-> t]]
    ELSE c

\* What a fetch can end in: a 2xx response with a decoded payload, a response
\* that is not ok (script.js 731-733), or a rejected fetch (no response).
Outcomes ==
    [kind : {"ok"}, data : Payloads, status : {200}]
    \cup [kind : {"http"}, data : {NoData}, status : {500}]
    \cup [kind : {"transport"}, data : {NoData}, status : {0}]

NoError == <<>>

\* An error that says nothing of the response.
RequestError_plain(outcome) ==
    IF outcome.kind = "ok" THEN NoError ELSE <<"Request failed">>

\* What request() throws (script.js 731-733, 746-749): an Error whose
\* message is `HTTP ${response.status}: ${response.statusText}` for a
\* response that is not ok, the error fetch rejected with otherwise.
RequestError(outcome) ==
    CASE outcome.kind = "ok" -> NoError
      [] outcome.kind = "http" -> <<"HTTP", ToString(outcome.status)>>
      [] outcome.kind = "transport" -> <<"TypeError: Failed to fetch">>

\* A call with no explicit mutating method: no method at all, or GET.
NonMutating(req) == req.options.method \in {Absent, "GET"}

NoCall ==
    [req |-> CHOOSE r \in Requests : TRUE, via |-> "none", result |-> "none",
     data |-> NoData, expired |-> FALSE, error |-> NoError]

InitCache ==
    /\ now = 0
    /\ ticks = 0
    /\ cache = [k \in Keys |-> NoEntry]
    /\ calls = {}
    /\ nCalls = 0
    /\ lastCall = NoCall
    /\ successes = <<>>

\* Time passes: by a millisecond, or by a millisecond less than the TTL.
Tick ==
    /\ ticks < MaxTicks
    /\ \E d \in {1, TTL - 1} : now' = now + d
    /\ ticks' = ticks + 1
    /\ UNCHANGED <<cache, calls, nCalls, lastCall, successes, notCacheVars>>

\* The entry under the call's key is there and its age has reached the TTL.
Expired(c, req, t) ==
    /\ Cacheable(req)
    /\ c[cacheKey(req)] # NoEntry
    /\ t - c[cacheKey(req)].timestamp >= TTL

\* A request() that joins a call already in flight under its key.
Request_coalescing(req) ==
    /\ nCalls < MaxCalls
    /\ nCalls' = nCalls + 1
    /\ LET entry == CacheLookup(cache, req, now)
       IN  IF entry # NoEntry
           THEN /\ lastCall' = [req |-> req, via |-> "cache", result |-> "ok",
                                data |-> entry.data, expired |-> FALSE,
                                error |-> NoError]
                /\ UNCHANGED calls
           ELSE /\ calls' =
                       IF \E c \in calls : cacheKey(c.req) = cacheKey(req)
                       THEN calls
                       ELSE calls \cup
                                {[id |-> nCalls + 1, req |-> req,
                                  expired |-> Expired(cache, req, now)]}
                /\ UNCHANGED lastCall
    /\ UNCHANGED <<now, ticks, cache, successes, notCacheVars>>

\* request(endpoint, options) up to its first await (script.js 710-729): the
\* fresh entry is returned, or the call suspends in fetch.
Request(req) ==
    /\ nCalls < MaxCalls
    /\ nCalls' = nCalls + 1
    /\ LET entry == CacheLookup(cache, req, now)
       IN  IF entry # NoEntry
           THEN /\ lastCall' = [req |-> req, via |-> "cache", result |-> "ok",
                                data |-> entry.data, expired |-> FALSE,
                                error |-> NoError]
                /\ UNCHANGED calls
           ELSE /\ calls' = calls \cup
                       {[id |-> nCalls + 1, req |-> req,
                         expired |-> Expired(cache, req, now)]}
                /\ UNCHANGED lastCall
    /\ UNCHANGED <<now, ticks, cache, successes, notCacheVars>>

\* The fetch of a suspended call settles (script.js 731-749): a payload is
\* stored and returned, a failure is thrown to the caller.
Response(call, outcome) ==
    /\ call \in calls
    /\ calls' = calls \ {call}
    /\ IF outcome.kind = "ok"
       THEN /\ cache' = CacheStore(cache, call.req, outcome.data, now)
            /\ successes' =
                   IF NonMutating(call.req)
                   THEN Append(successes, [key |-> cacheKey(call.req),
                                           data |-> outcome.data, at |-> now])
                   ELSE successes
       ELSE UNCHANGED <<cache, successes>>
    /\ lastCall' = [req |-> call.req, via |-> "network",
                    result |-> outcome.kind, data |-> outcome.data,
                    expired |-> call.expired, error |-> RequestError(outcome)]
    /\ UNCHANGED <<now, ticks, nCalls, notCacheVars>>

NextCache ==
    \/ Tick
    \/ \E req \in CacheRequests : Request(req)
    \/ \E call \in calls, outcome \in Outcomes : Response(call, outcome)


(***************************************************************************)
(* TabManager (script.js 447-518).  The markup is not part of the script:  *)
(* the model takes any list of distinct tab buttons, each with its content *)
(* element, none carrying the 'active' class before construction.          *)
(***************************************************************************)
\* The tabs initializeTab knows (script.js 507-517).
TabIds == {"summarization", "document-qa", "learning-path"}
\* An id no button declares.
UndeclaredTab == "no-such-tab"
\* `this.activeTab = null` (script.js 450).
NoTab == "<null>"

RECURSIVE Markups(_)
Markups(n) ==
    IF n = 0 THEN {<<>>}
    ELSE LET shorter == Markups(n - 1)
         IN  shorter \cup
             {Append(m, t) : m \in {x \in shorter : Len(x) = n - 1},
                             t \in TabIds}

\* The markups: every list of distinct declared tabs.
TabMarkups ==
    {m \in Markups(Cardinality(TabIds)) :
        \A i, j \in 1..Len(m) : i # j => m[i] # m[j]}

Declared(order) == {order[i] : i \in 1..Len(order)}

\* A tab that re-runs its setup on every activation.
NeedsInit_always(tab) == TRUE

\* `if (!newTab.initialized)` (script.js 496).
NeedsInit(tab) == ~tab.initialized

\* The state of a TabManager with appState.activeTab beside it.
TabState(t, a, app, runs) ==
    [tabs |-> t, activeTab |-> a, appActiveTab |-> app, initRuns |-> runs]

\* A switchTab that goes on for the active tab too.
AlreadyActive_never(tm, tabId) == FALSE

\* `if (this.activeTab === tabId) return;` (script.js 478).
AlreadyActive(tm, tabId) == tm.activeTab = tabId

\* switchTab(tabId) (script.js 477-504) on the state `tm`.
switchTab(tm, tabId) ==
    IF AlreadyActive(tm, tabId) THEN tm
    ELSE LET \* Hide current tab
             hid == IF tm.activeTab # NoTab
                    THEN [tm.tabs EXCEPT ![tm.activeTab].button = FALSE,
                                         ![tm.activeTab].content = FALSE]
                    ELSE tm.tabs
         IN  IF tabId \in DOMAIN hid
             THEN TabState(
                      [hid EXCEPT ![tabId].button = TRUE,
                                  ![tabId].content = TRUE,
                                  ![tabId].initialized = TRUE],
                      tabId,
                      tabId,
                      IF NeedsInit(hid[tabId])
                      THEN [tm.initRuns EXCEPT ![tabId] = @ + 1]
                      ELSE tm.initRuns)
             ELSE TabState(hid, tm.activeTab, tm.appActiveTab, tm.initRuns)

\* setupTabs() (script.js 454-475): one entry per button, then the first tab
\* is switched to.  appState.activeTab starts as 'summarization' (script.js 33).
setupTabs(order) ==
    LET fresh == TabState(
                     [t \in Declared(order) |->
                         [button |-> FALSE, content |-> FALSE,
                          initialized |-> FALSE]],
                     NoTab,
                     "summarization",
                     [t \in Declared(order) |-> 0])
    IN  IF Len(order) > 0 THEN switchTab(fresh, order[1]) ELSE fresh

tabManager == TabState(tabs, activeTab, appActiveTab, initRuns)

InitTabs ==
    /\ tabOrder \in TabMarkups
    /\ LET tm == setupTabs(tabOrder)
       IN  /\ tabs = tm.tabs
           /\ activeTab = tm.activeTab
           /\ appActiveTab = tm.appActiveTab
           /\ initRuns = tm.initRuns

\* A click on a tab button, or any other call of tabManager.switchTab.
SwitchTab(tabId) ==
    /\ LET tm == switchTab(tabManager, tabId)
       IN  /\ tabs' = tm.tabs
           /\ activeTab' = tm.activeTab
           /\ appActiveTab' = tm.appActiveTab
           /\ initRuns' = tm.initRuns
    /\ UNCHANGED <<tabOrder, notTabVars>>

NextTabs == \E tabId \in TabIds \cup {UndeclaredTab} : SwitchTab(tabId)

(***************************************************************************)
(* FormValidator (script.js 805-894).  A field value is a string, kept as  *)
(* the length of its text (`core`) and of the white space around it        *)
(* (`pad`).                                                                *)
(***************************************************************************)
FieldValues ==
    { [pad |-> 0, core |-> 0], [pad |-> 2, core |-> 0],
      [pad |-> 2, core |-> 9], [pad |-> 0, core |-> 10],
      [pad |-> 2, core |-> 49], [pad |-> 1, core |-> 50],
      [pad |-> 0, core |-> 10001] }

\* String.prototype.trim and .length.
trim(value) == [pad |-> 0, core |-> value.core]
length(value) == value.pad + value.core

NoMessage == "<no error>"

\* setupValidation() (script.js 818-848): the rules of each field, in
\* registration order; `min` is trim().length >= bound, `max` is <= bound.
rules ==
    [f \in {"summarize-text", "learning-goal", "question-text"} |->
        CASE f = "summarize-text" ->
               << [test |-> "min", bound |-> 1,
                   message |-> "Text is required for summarization"],
                  [test |-> "min", bound |-> 50,
                   message |-> "Text should be at least 50 characters for meaningful summarization"],
                  [test |-> "max", bound |-> 10000,
                   message |-> "Text should not exceed 10,000 characters"] >>
          [] f = "learning-goal" ->
               << [test |-> "min", bound |-> 1,
                   message |-> "Learning goal is required"],
                  [test |-> "min", bound |-> 10,
                   message |-> "Please provide a more detailed learning goal (at least 10 characters)"] >>
          [] f = "question-text" ->
               << [test |-> "min", bound |-> 1,
                   message |-> "Question is required"] >> ]

\* `rule.validator(field.value)` (script.js 856).
RulePasses(rule, value) ==
    IF rule.test = "min"
    THEN length(trim(value)) >= rule.bound
    ELSE length(trim(value)) <= rule.bound

\* validate(fieldId) (script.js 850-863): the messages of the failing rules,
\* in order.
validate(fieldId, value) ==
    LET Fails(rule) == ~RulePasses(rule, value)
        failing == SelectSeq(rules[fieldId], Fails)
    IN  [i \in 1..Len(failing) |-> failing[i].message]

\* A display that shows the last message.
displayFieldErrors_last(errors) ==
    IF Len(errors) > 0 THEN errors[Len(errors)] ELSE NoMessage

\* displayFieldErrors(field, errors) (script.js 875-893): the first message.
displayFieldErrors(errors) ==
    IF Len(errors) > 0 THEN errors[1] ELSE NoMessage

\* The markup is not part of the script: a field's parent element is named
\* by one of the fields, and any fields may share one.  The parents hold no
\* .field-error element and the fields no 'field-invalid' class before the
\* first validation.
FieldLayouts == [DOMAIN rules -> DOMAIN rules]
\* Each field in a group of its own.
OwnParents == [f \in DOMAIN rules |-> f]

NoFieldDom ==
    [invalid |-> [f \in DOMAIN rules |-> FALSE],
     errors |-> [p \in DOMAIN rules |-> <<>>]]

\* displayFieldErrors(field, errors) (script.js 875-893) on the document:
\* the first .field-error of the field's parent is removed, whichever field
\* it was made for; with errors the field gets the class and a new element
\* is appended to the parent, without them the class is removed.  An
\* element is [message, of]: `of` is the field it was made for.
displayFieldErrorsIn(dom, parent, field, errors) ==
    LET existing == dom.errors[parent]
        removed == IF existing # <<>> THEN Tail(existing) ELSE existing
    IN  IF Len(errors) > 0
        THEN [invalid |-> [dom.invalid EXCEPT ![field] = TRUE],
              errors |-> [dom.errors EXCEPT ![parent] =
                             Append(removed,
                                    [message |-> displayFieldErrors(errors),
                                     of |-> field])]]
        ELSE [invalid |-> [dom.invalid EXCEPT ![field] = FALSE],
              errors |-> [dom.errors EXCEPT ![parent] = removed]]

\* The document after the validate calls of validateForm's loop (script.js
\* 867-871).
RECURSIVE validateFormIn(_, _, _, _)
validateFormIn(dom, layout, fieldIds, values) ==
    IF fieldIds = <<>> THEN dom
    ELSE LET fieldId == Head(fieldIds)
         IN  validateFormIn(
                 displayFieldErrorsIn(dom, layout[fieldId], fieldId,
                                      validate(fieldId, values[fieldId])),
                 layout, Tail(fieldIds), values)

\* A loop that stops at the first field that fails.
RECURSIVE validateFormLoop_shortCircuit(_, _, _, _)
validateFormLoop_shortCircuit(fieldIds, values, isValid, shown) ==
    IF fieldIds = <<>> \/ ~isValid THEN [isValid |-> isValid, shown |-> shown]
    ELSE LET fieldId == Head(fieldIds)
             errors == validate(fieldId, values[fieldId])
         IN  validateFormLoop_shortCircuit(
                 Tail(fieldIds), values, isValid /\ Len(errors) = 0,
                 [shown EXCEPT ![fieldId] = displayFieldErrors(errors)])

\* The loop of validateForm (script.js 866-872) from `isValid` on, over the
\* fields' values: validate displays each field's errors in `shown`.
RECURSIVE validateFormLoop(_, _, _, _)
validateFormLoop(fieldIds, values, isValid, shown) ==
    IF fieldIds = <<>> THEN [isValid |-> isValid, shown |-> shown]
    ELSE LET fieldId == Head(fieldIds)
             errors == validate(fieldId, values[fieldId])
         IN  validateFormLoop(
                 Tail(fieldIds), values,
                 IF Len(errors) # 0 THEN FALSE ELSE isValid,
                 [shown EXCEPT ![fieldId] = displayFieldErrors(errors)])

\* validateForm(fieldIds) (script.js 865-873) over the fields' values: what
\* it returns.
validateForm(fieldIds, values) ==
    validateFormLoop(fieldIds, values, TRUE,
                     [f \in DOMAIN values |-> NoMessage]).isValid

(***************************************************************************)
(* The file input and TabManager.handleFileSelection (script.js 593-686).  *)
(***************************************************************************)
\* CONFIG.MAX_FILE_SIZE and CONFIG.SUPPORTED_FILE_TYPES (script.js 16-17).
MAX_FILE_SIZE == 10 * 1024 * 1024
SUPPORTED_FILE_TYPES == {"pdf", "docx", "txt", "md"}

\* A file name is the list of its parts between dots.
Files ==
    { [name |-> <<"report", "pdf">>, size |-> 1024],
      [name |-> <<"report", "pdf">>, size |-> MAX_FILE_SIZE + 1],
      [name |-> <<"SETUP", "EXE">>, size |-> 1024] }
NoFile == [name |-> <<>>, size |-> 0]

\* String.prototype.toLowerCase on the strings of the model.
toLowerCase(str) ==
    CASE str = "SETUP" -> "setup"
      [] str = "EXE" -> "exe"
      [] OTHER -> str

\* `file.name.split('.').pop().toLowerCase()` (script.js 628).
fileExtension(file) == toLowerCase(file.name[Len(file.name)])

NoNote == [type |-> "none", message |-> <<>>]

\* handleFileSelection(file) (script.js 627-665): the notification shown on
\* rejection, NoNote when the file is accepted.
handleFileSelection(file) ==
    IF fileExtension(file) \notin SUPPORTED_FILE_TYPES
    THEN [type |-> "error",
          message |-> <<"Unsupported file type", fileExtension(file)>>]
    ELSE IF file.size > MAX_FILE_SIZE
    THEN [type |-> "error", message |-> <<"File size too large">>]
    ELSE NoNote

(***************************************************************************)
(* The operation handlers (script.js 913-946, 1153-1304, 1392-1412).  Two  *)
(* functions are declared twice: the later declarations of uploadDocument  *)
(* and askQuestion (script.js 1153, 1191) are the ones the page calls.     *)
(* They use globals the script never defines (API_BASE_URL, showLoading,   *)
(* hideLoading, showError, showSuccess, showResult): `legacy` says whether *)
(* the page defines them; without them a call throws a ReferenceError.     *)
(***************************************************************************)
ApiKinds == {"summarize", "generate", "popular"}
LegacyKinds == {"upload", "ask"}

\* The request each handler makes through the APIClient (script.js 763-798).
RequestOf(kind) ==
    CASE kind = "summarize" ->
           [endpoint |-> "/api/summarize",
            options |-> [method |-> "POST", body |-> "{text}"]]
      [] kind = "generate" ->
           [endpoint |-> "/api/learning-path/generate",
            options |-> [method |-> "POST", body |-> "{goal}"]]
      [] kind = "popular" ->
           [endpoint |-> "/api/learning-path/popular",
            options |-> [method |-> Absent, body |-> Absent]]

\* The field a handler validates (script.js 915, 1265).
FieldOf(kind) ==
    IF kind = "summarize" THEN "summarize-text" ELSE "learning-goal"

\* How a handler's try block ends for an outcome of its remote call: the
\* result is rendered, or something is thrown to the catch block.
HandlerResult(outcome) ==
    IF outcome.kind # "ok" THEN outcome.kind
    ELSE IF outcome.data = "failure" THEN "backend-failure"
    ELSE IF outcome.data = "success-malformed" THEN "render-threw"
    ELSE "success"

\* The notification of a handler's try or catch block.
NoteFor(kind, result) ==
    IF result = "success"
    THEN [type |-> "success",
          message |-> CASE kind = "summarize" ->
                             <<"Text summarized successfully!">>
                        [] kind = "generate" ->
                             <<"Learning path generated successfully!">>
                        [] kind = "popular" ->
                             <<"Popular paths loaded successfully!">>]
    ELSE [type |-> "error",
          message |-> CASE kind = "summarize" ->
                             <<"Failed to summarize text. Please try again.">>
                        [] kind = "generate" ->
                             <<"Failed to generate learning path. Please try again.">>
                        [] kind = "popular" ->
                             <<"Failed to load popular paths. Please try again.">>]

\* The notifications a handler emits from its remote call's outcome to its
\* end, in order.  The handlers of the APIClient emit the success
\* notification as the last statement of the try block, after the rendering
\* (script.js 934-935, 1292-1293, 1400-1401), and the error notification as
\* the first statement of the catch block (script.js 941, 1299, 1407).  The
\* later uploadDocument and askQuestion never call notifications.show
\* (script.js 1174-1188, 1218-1259).
notificationsOf(kind, result) ==
    IF kind \in ApiKinds
    THEN LET tryBlock == IF result = "success"
                         THEN <<NoteFor(kind, "success")>> ELSE <<>>
             catchBlock == IF result # "success"
                           THEN <<NoteFor(kind, result)>> ELSE <<>>
         IN  tryBlock \o catchBlock
    ELSE <<>>

\* The notification shown last once `notes` have been shown after `note`.
lastShown(note, notes) ==
    IF notes = <<>> THEN note ELSE notes[Len(notes)]

\* A finally block that runs on the success path only.
releaseLoader_onSuccess(lm, token, result) ==
    IF result = "success" THEN LoadingManager_hide(lm, token) ELSE lm

\* `finally { loading.hide(loaderId); }` (script.js 943-945, 1301-1303,
\* 1409-1411).
releaseLoader(lm, token, result) == LoadingManager_hide(lm, token)

\* A handler that goes on whatever the validator says.
Blocked_never(kind, value) == FALSE

\* `if (!validator.validateForm([...])) return;` (script.js 915-917,
\* 1265-1267).
Blocked(kind, value) ==
    ~validateForm(<<FieldOf(kind)>>, [f \in {FieldOf(kind)} |-> value])

\* The output region a handler renders to (script.js 942, 1016, 1077, 1158,
\* 1196, 1300, 1408).
RegionOf(kind) ==
    CASE kind = "summarize" -> "summarization-result"
      [] kind \in {"generate", "popular"} -> "learning-path-result"
      [] kind \in LegacyKinds -> "document-qa-result"

NoBlock == [region |-> "", block |-> "none"]

\* displayError, showError, showSuccess and showResult are called but never
\* defined by the script: where the page does not define them the call
\* throws a ReferenceError and the region keeps what it showed.
callGlobal(defined, out, regionId, block) ==
    IF defined THEN [region |-> regionId, block |-> block] ELSE out

\* The output region after a handler's try and catch blocks.  The handlers
\* of the APIClient render a result themselves and leave the error block to
\* displayError (script.js 936-942, 1294-1300, 1402-1408); a rendering that
\* throws has not written the region yet.  The later uploadDocument and
\* askQuestion render through showSuccess, showResult and showError
\* (script.js 1176-1186, 1220-1257).
OutputFor(kind, result, defined, out) ==
    IF kind \in ApiKinds
    THEN IF result = "success"
         THEN [region |-> RegionOf(kind), block |-> "result"]
         ELSE callGlobal(defined, out, RegionOf(kind), "error")
    ELSE callGlobal(defined, out, RegionOf(kind),
                    IF result = "success" THEN "result" ELSE "error")

InitOps ==
    /\ legacy = FALSE
    /\ fileInput = NoFile
    /\ fileInfo = NoFile
    /\ ops = {}
    /\ nOps = 0
    /\ fieldErrors = [f \in DOMAIN rules |-> NoMessage]
    /\ fieldParent \in FieldLayouts
    /\ fieldDom = NoFieldDom
    /\ lastNote = NoNote
    /\ output = NoBlock

\* Another script of the page defines the globals that the later
\* uploadDocument and askQuestion call (script.js 1158-1258); the page may
\* load it at any time, or never.
DefineLegacyGlobals ==
    /\ ~legacy
    /\ legacy' = TRUE
    /\ UNCHANGED <<fileInput, fileInfo, ops, nOps, fieldErrors,
                   fieldDom, lastNote,
                   output, loading, now, cache, notOpVars>>

\* summarizeText() and generateLearningPath() up to their await (script.js
\* 913-930, 1263-1288) with `value` in the validated field.
SubmitText(kind, value) ==
    /\ fieldErrors' = [fieldErrors EXCEPT ![FieldOf(kind)] =
                           displayFieldErrors(validate(FieldOf(kind), value))]
    /\ fieldDom' = validateFormIn(fieldDom, fieldParent, <<FieldOf(kind)>>,
                                  [f \in {FieldOf(kind)} |-> value])
    /\ IF Blocked(kind, value)
       THEN UNCHANGED <<loading, ops, nOps>>
       ELSE /\ nOps < MaxOps
            /\ nOps' = nOps + 1
            /\ \E id \in Ids :
                /\ loading' = LoadingManager_show(loading, id)
                /\ ops' = ops \cup
                       {[id |-> nOps + 1, kind |-> kind, token |-> id,
                         file |-> NoFile]}
    /\ UNCHANGED <<legacy, fileInput, fileInfo, lastNote, output, now, cache,
                   notOpVars>>

\* getPopularPaths() (script.js 1392-1412): served from the cache it runs to
\* its end, otherwise it suspends in fetch.
SubmitPopular ==
    /\ \E id \in Ids :
        LET entry == CacheLookup(cache, RequestOf("popular"), now)
            result == HandlerResult([kind |-> "ok", data |-> entry.data,
                                     status |-> 200])
        IN  IF entry # NoEntry
            THEN /\ loading' = releaseLoader(
                                   LoadingManager_show(loading, id), id, result)
                 /\ lastNote' = lastShown(lastNote,
                                          notificationsOf("popular", result))
                 /\ output' = OutputFor("popular", result, legacy, output)
                 /\ UNCHANGED <<ops, nOps>>
            ELSE /\ nOps < MaxOps
                 /\ nOps' = nOps + 1
                 /\ loading' = LoadingManager_show(loading, id)
                 /\ ops' = ops \cup
                        {[id |-> nOps + 1, kind |-> "popular", token |-> id,
                          file |-> NoFile]}
                 /\ UNCHANGED <<lastNote, output>>
    /\ UNCHANGED <<legacy, fileInput, fileInfo, fieldErrors,
                   fieldDom, now, cache,
                   notOpVars>>

\* uploadDocument() up to its await (script.js 1153-1172): the file of the
\* input is sent, whatever handleFileSelection said about it.
SubmitUpload ==
    /\ IF fileInput = NoFile \/ ~legacy
       THEN /\ output' = IF fileInput = NoFile
                         THEN callGlobal(legacy, output, RegionOf("upload"),
                                         "error")
                         ELSE output
            /\ UNCHANGED <<ops, nOps>>
       ELSE /\ nOps < MaxOps
            /\ nOps' = nOps + 1
            /\ ops' = ops \cup
                   {[id |-> nOps + 1, kind |-> "upload", token |-> NoToken,
                     file |-> fileInput]}
            /\ UNCHANGED output
    /\ UNCHANGED <<legacy, fileInput, fileInfo, fieldErrors,
                   fieldDom, lastNote,
                   loading, now, cache, notOpVars>>

\* askQuestion() up to its await (script.js 1191-1216).
SubmitAsk(value) ==
    /\ IF length(trim(value)) = 0 \/ ~legacy
       THEN /\ output' = IF length(trim(value)) = 0
                         THEN callGlobal(legacy, output, RegionOf("ask"),
                                         "error")
                         ELSE output
            /\ UNCHANGED <<ops, nOps>>
       ELSE /\ nOps < MaxOps
            /\ nOps' = nOps + 1
            /\ ops' = ops \cup
                   {[id |-> nOps + 1, kind |-> "ask", token |-> NoToken,
                     file |-> NoFile]}
            /\ UNCHANGED output
    /\ UNCHANGED <<legacy, fileInput, fileInfo, fieldErrors,
                   fieldDom, lastNote,
                   loading, now, cache, notOpVars>>

\* The remote call of a suspended handler settles and the handler runs to
\* its end: try, catch, finally (script.js 932-945, 1174-1188, 1218-1259,
\* 1290-1303, 1398-1411).
OpResponse(op, outcome) ==
    /\ op \in ops
    /\ ops' = ops \ {op}
    /\ LET result == HandlerResult(outcome)
       IN  /\ output' = OutputFor(op.kind, result, legacy, output)
           /\ lastNote' = lastShown(lastNote, notificationsOf(op.kind, result))
           /\ IF op.kind \in ApiKinds
              THEN /\ cache' = IF outcome.kind = "ok"
                               THEN CacheStore(cache, RequestOf(op.kind),
                                               outcome.data, now)
                               ELSE cache
                   /\ loading' = releaseLoader(loading, op.token, result)
              ELSE UNCHANGED <<cache, loading>>
    /\ UNCHANGED <<legacy, fileInput, fileInfo, nOps, fieldErrors,
                   fieldDom, now,
                   notOpVars>>

\* setupFileUpload() has run (script.js 593-625): it is called by the
\* initializer of the document-qa tab.
ListenersAttached ==
    "document-qa" \in DOMAIN tabs /\ tabs["document-qa"].initialized

\* The user picks a file in #document-file: the browser puts it into the
\* input, and the 'change' listener (script.js 619-623), once attached,
\* hands it to handleFileSelection.
SelectFile(file) ==
    /\ fileInput' = file
    /\ LET note == handleFileSelection(file)
       IN  IF ~ListenersAttached THEN UNCHANGED <<fileInfo, lastNote>>
           ELSE IF note = NoNote
           THEN fileInfo' = file /\ UNCHANGED lastNote
           ELSE lastNote' = note /\ UNCHANGED fileInfo
    /\ UNCHANGED <<legacy, ops, nOps, fieldErrors,
                   fieldDom, output, loading, now,
                   cache, notOpVars>>

\* The 'drop' listener of the upload zone (script.js 609-617): the input
\* keeps what it held.
DropFile(file) ==
    /\ ListenersAttached
    /\ LET note == handleFileSelection(file)
       IN  IF note = NoNote
           THEN fileInfo' = file /\ UNCHANGED lastNote
           ELSE lastNote' = note /\ UNCHANGED fileInfo
    /\ UNCHANGED <<legacy, fileInput, ops, nOps, fieldErrors, fieldDom, output,
                   loading, now, cache, notOpVars>>

\* removeFile() (script.js 680-686), the onclick of the button rendered in
\* the file info (script.js 657).
RemoveFile ==
    /\ fileInfo # NoFile
    /\ fileInput' = NoFile
    /\ fileInfo' = NoFile
    /\ UNCHANGED <<legacy, ops, nOps, fieldErrors, fieldDom, lastNote, output,
                   loading, now, cache, notOpVars>>

\* The five handlers, with the file input as the page loads it.
NextHandlers ==
    \/ \E kind \in {"summarize", "generate"}, value \in FieldValues :
           SubmitText(kind, value)
    \/ SubmitPopular
    \/ SubmitUpload
    \/ \E value \in FieldValues : SubmitAsk(value)
    \/ \E op \in ops, outcome \in Outcomes : OpResponse(op, outcome)
    \/ DefineLegacyGlobals

\* The file selection and the handler that reads the input.
NextFiles ==
    \/ \E file \in Files : SelectFile(file)
    \/ \E file \in Files : DropFile(file)
    \/ RemoveFile
    \/ SwitchTab("document-qa")
    \/ SubmitUpload
    \/ \E op \in ops, outcome \in Outcomes : OpResponse(op, outcome)
    \/ DefineLegacyGlobals

NextOps == NextHandlers \/ NextFiles

(***************************************************************************)
(* Rendering of backend strings (script.js 109-113, 948-984).  A string is *)
(* the sequence of its characters.                                         *)
(***************************************************************************)
Chars == {"a", "<", "&", "\""}

RECURSIVE StringsOfLen(_)
StringsOfLen(n) ==
    IF n = 0 THEN {<<>>}
    ELSE {Append(str, ch) : str \in StringsOfLen(n - 1), ch \in Chars}

Strings == UNION {StringsOfLen(n) : n \in 0..MaxStrLen}

\* The serialization of one character of a text node (div.innerHTML,
\* script.js 112): '&', '<' and '>' become entities, a quote stays.
escapeChar(ch) ==
    CASE ch = "&" -> <<"&", "a", "m", "p", ";">>
      [] ch = "<" -> <<"&", "l", "t", ";">>
      [] ch = ">" -> <<"&", "g", "t", ";">>
      [] OTHER -> <<ch>>

\* Utils.sanitizeHTML(str) (script.js 109-113).
RECURSIVE sanitizeHTML(_)
sanitizeHTML(str) ==
    IF str = <<>> THEN <<>>
    ELSE escapeChar(Head(str)) \o sanitizeHTML(Tail(str))

\* The results the backend can send for a summary.
SummaryResults == [summary : Strings, style : {<<"a">>, <<"\"">>}]

\* displaySummarizationResult(result) (script.js 948-984): the strings put
\* into the template, in order, each with the place it lands in: inside the
\* single-quoted argument of an onclick attribute, or in element content.
displaySummarizationResult(result) ==
    << [context |-> "onclick", text |-> result.summary],
       [context |-> "onclick", text |-> result.summary],
       [context |-> "onclick", text |-> result.style],
       [context |-> "content", text |-> sanitizeHTML(result.summary)] >>

InitRender == region = <<>>

\* A summary arrives and is rendered.
RenderSummary(result) ==
    /\ region' = displaySummarizationResult(result)
    /\ UNCHANGED notRenderVars

NextRender == \E result \in SummaryResults : RenderSummary(result)

(***************************************************************************)
(* Backend health: AppState.setApiStatus (script.js 50-68),                *)
(* APIClient.healthCheck (script.js 752-761) and the health check of the   *)
(* DOMContentLoaded listener (script.js 1460-1492).                        *)
(***************************************************************************)
HealthRequest ==
    [endpoint |-> "/health", options |-> [method |-> Absent, body |-> Absent]]

\* The indicator as the page's markup has it, before any update.
IndicatorMarkup == "<markup>"

\* updateApiStatusIndicator() (script.js 55-66): the text for a status.
indicatorText(status) ==
    IF status = "healthy" THEN "API Online" ELSE "API Offline"

NoHealth ==
    [probe |-> "none", via |-> "none", failed |-> FALSE, returned |-> NoData,
     thrown |-> NoError]

\* The status healthCheck() sets (script.js 755, 758).
healthStatus(status, failed) ==
    IF failed THEN "error" ELSE "healthy"

InitHealth ==
    /\ apiStatus = "unknown"
    /\ indicator = IndicatorMarkup
    /\ banner = FALSE
    /\ loaded = FALSE
    /\ probing = 0
    /\ lastHealth = NoHealth

\* healthCheck() has its answer (script.js 753-760), from the cache or from
\* the network: the status is set, the indicator updated, the payload
\* returned or the error thrown again.
healthCheckEnds(outcome, via) ==
    /\ apiStatus' = healthStatus(apiStatus, outcome.kind # "ok")
    /\ indicator' = indicatorText(apiStatus')
    /\ lastHealth' = [probe |-> "healthCheck", via |-> via,
                      failed |-> outcome.kind # "ok",
                      returned |-> outcome.data,
                      thrown |-> RequestError(outcome)]

\* healthCheck() up to the await in request(): a fresh cache entry answers
\* it at once, otherwise it suspends in fetch.
HealthCheck ==
    /\ LET entry == CacheLookup(cache, HealthRequest, now)
       IN  IF entry # NoEntry
           THEN /\ healthCheckEnds([kind |-> "ok", data |-> entry.data,
                                    status |-> 200], "cache")
                /\ UNCHANGED probing
           ELSE /\ probing < MaxProbes
                /\ probing' = probing + 1
                /\ UNCHANGED <<apiStatus, indicator, lastHealth>>
    /\ UNCHANGED <<cache, banner, loaded, notHealthVars>>

\* The fetch of a suspended healthCheck() settles.
HealthResponse(outcome) ==
    /\ probing > 0
    /\ probing' = probing - 1
    /\ cache' = IF outcome.kind = "ok"
                THEN CacheStore(cache, HealthRequest, outcome.data, now)
                ELSE cache
    /\ healthCheckEnds(outcome, "network")
    /\ UNCHANGED <<banner, loaded, notHealthVars>>

\* How the body of a response that is not ok decodes in response.json().
Bodies == {"json", "not json"}

\* The DOMContentLoaded listener (script.js 1460-1486): a fetch of its own
\* to `${API_BASE_URL}/health`; whatever is thrown in the try block (the
\* ReferenceError for API_BASE_URL, a rejected fetch, a body that is not
\* JSON) attaches the banner; appState is not touched.
OnLoadHealthCheck(outcome, body) ==
    /\ ~loaded
    /\ loaded' = TRUE
    /\ LET failed == \/ ~legacy
                     \/ outcome.kind = "transport"
                     \/ outcome.kind = "http" /\ body = "not json"
       IN  /\ banner' = failed
           /\ lastHealth' = [probe |-> "onload", via |-> "network",
                             failed |-> failed, returned |-> NoData,
                             thrown |-> NoError]
    /\ UNCHANGED <<cache, apiStatus, indicator, probing, notHealthVars>>

\* The timer that removes the banner after 10 seconds (script.js 1487-1491).
BannerTimeout ==
    /\ banner
    /\ banner' = FALSE
    /\ UNCHANGED <<cache, apiStatus, indicator, loaded, probing, lastHealth,
                   notHealthVars>>

NextHealth ==
    \/ HealthCheck
    \/ \E outcome \in Outcomes : HealthResponse(outcome)
    \/ \E outcome \in Outcomes, body \in Bodies :
           OnLoadHealthCheck(outcome, body)
    \/ BannerTimeout
    \/ Tick
    \/ DefineLegacyGlobals

(***************************************************************************)
(* ModalDialog (script.js 218-284).  A modal node is named by the order of *)
(* its creation.                                                           *)
(***************************************************************************)
\* `this.activeModal = null` (script.js 220).
NoModal == 0

InitModal ==
    /\ modalNodes = {}
    /\ activeModal = NoModal
    /\ nModals = 0
    /\ modalTimers = <<>>

\* show(title, content, options) (script.js 224-262): a new node is appended
\* to the body and becomes activeModal.
ModalShow ==
    /\ nModals < MaxModals
    /\ nModals' = nModals + 1
    /\ modalNodes' = modalNodes \cup {nModals + 1}
    /\ activeModal' = nModals + 1
    /\ UNCHANGED <<modalTimers, notModalVars>>

\* close() (script.js 264-275), also called on Escape (script.js 277-283):
\* with a modal active the exit animation starts and a timer is set.
ModalClose ==
    /\ IF activeModal # NoModal
       THEN /\ Len(modalTimers) < MaxModalTimers
            /\ modalTimers' = Append(modalTimers, activeModal)
       ELSE UNCHANGED modalTimers
    /\ UNCHANGED <<modalNodes, activeModal, nModals, notModalVars>>

\* The oldest timer of close() fires (script.js 268-273): the node that is
\* activeModal now is removed.
ModalCloseTimer ==
    /\ modalTimers # <<>>
    /\ modalTimers' = Tail(modalTimers)
    /\ modalNodes' = IF activeModal # NoModal /\ activeModal \in modalNodes
                     THEN modalNodes \ {activeModal}
                     ELSE modalNodes
    /\ activeModal' = NoModal
    /\ UNCHANGED <<nModals, notModalVars>>

NextModal == ModalShow \/ ModalClose \/ ModalCloseTimer

(***************************************************************************)
(* NotificationSystem (script.js 145-216).  A notification node is named   *)
(* by the order of its creation; its id comes from Utils.generateId.       *)
(***************************************************************************)
Nodes == 1..MaxNotes
NoNode == 0

InitNotes ==
    /\ registry = [id \in Ids |-> NoNode]
    /\ container = {}
    /\ nNotes = 0
    /\ autoTimers = {}
    /\ exitTimers = [t \in Nodes \X Ids |-> 0]
    /\ nDismissCalls = 0

\* dismiss(id) (script.js 189-201) on the registry `reg` with the exit
\* timers `timers`: for a registered id the exit animation starts and a
\* timer is set that holds the node and the id.
dismiss(reg, timers, id) ==
    IF reg[id] # NoNode
    THEN [timers EXCEPT ![<<reg[id], id>>] = @ + 1]
    ELSE timers

\* clear() (script.js 213-215): dismiss(id) for every registered id.
RECURSIVE dismissAll(_, _, _)
dismissAll(reg, timers, ids) ==
    IF ids = {} THEN timers
    ELSE LET id == CHOOSE i \in ids : TRUE
         IN  dismissAll(reg, dismiss(reg, timers, id), ids \ {id})

\* show(message, type, duration) (script.js 161-187) when generateId gives
\* `id`: the node is appended, registered under the id, and the auto-dismiss
\* timer is set.
NoteShow(id) ==
    /\ nNotes < MaxNotes
    /\ nNotes' = nNotes + 1
    /\ container' = container \cup {nNotes + 1}
    /\ registry' = [registry EXCEPT ![id] = nNotes + 1]
    /\ autoTimers' = autoTimers \cup {[node |-> nNotes + 1, id |-> id]}
    /\ UNCHANGED <<exitTimers, nDismissCalls, notNoteVars>>

\* dismiss(id) called by the close button or by a caller of show().
NoteDismiss(id) ==
    /\ nDismissCalls < MaxDismissCalls
    /\ nDismissCalls' = nDismissCalls + 1
    /\ exitTimers' = dismiss(registry, exitTimers, id)
    /\ UNCHANGED <<registry, container, nNotes, autoTimers, notNoteVars>>

\* The auto-dismiss timer set by show() fires (script.js 178).
NoteAutoDismiss(timer) ==
    /\ timer \in autoTimers
    /\ autoTimers' = autoTimers \ {timer}
    /\ exitTimers' = dismiss(registry, exitTimers, timer.id)
    /\ UNCHANGED <<registry, container, nNotes, nDismissCalls, notNoteVars>>

\* The timer set by dismiss() fires (script.js 194-199): its node is
\* removed if it is attached, its id is deleted from the registry.
NoteExitTimer(t) ==
    /\ exitTimers[t] > 0
    /\ exitTimers' = [exitTimers EXCEPT ![t] = @ - 1]
    /\ container' = container \ {t[1]}
    /\ registry' = [registry EXCEPT ![t[2]] = NoNode]
    /\ UNCHANGED <<nNotes, autoTimers, nDismissCalls, notNoteVars>>

\* clear() (script.js 213-215).
NoteClear ==
    /\ nDismissCalls < MaxDismissCalls
    /\ nDismissCalls' = nDismissCalls + 1
    /\ exitTimers' = dismissAll(registry, exitTimers, Ids)
    /\ UNCHANGED <<registry, container, nNotes, autoTimers, notNoteVars>>

NoteTimers ==
    \/ \E timer \in autoTimers : NoteAutoDismiss(timer)
    \/ \E t \in Nodes \X Ids : NoteExitTimer(t)

NextNotes ==
    \/ \E id \in Ids : NoteShow(id)
    \/ \E id \in Ids : NoteDismiss(id)
    \/ NoteClear
    \/ NoteTimers

NoValidation == [fieldId |-> "", value |-> [pad |-> 0, core |-> 0],
                 result |-> TRUE]

NoFormValidation == [fieldIds |-> <<>>, result |-> TRUE]

InitValidate ==
    /\ validated = NoValidation
    /\ validatedForm = NoFormValidation

\* validate(fieldId) (script.js 850-863) with `value` in the field: the
\* errors are collected, displayFieldErrors shows them, the result is
\* `errors.length === 0`.
ValidateField(fieldId, value) ==
    /\ fieldErrors' = [fieldErrors EXCEPT ![fieldId] =
                           displayFieldErrors(validate(fieldId, value))]
    /\ fieldDom' = displayFieldErrorsIn(fieldDom, fieldParent[fieldId],
                                        fieldId, validate(fieldId, value))
    /\ validated' = [fieldId |-> fieldId, value |-> value,
                     result |-> Len(validate(fieldId, value)) = 0]
    /\ UNCHANGED <<validatedForm, notValidVars>>

\* The lists of fields a form is validated with.
FieldIdLists ==
    {<<>>} \cup {<<f>> : f \in DOMAIN rules}
    \cup {<<f, g>> : f, g \in DOMAIN rules}

\* What the fields of a form hold: nothing but blanks, too little for the
\* two text fields, enough for every field.
FormValues ==
    [DOMAIN rules -> {[pad |-> 2, core |-> 0], [pad |-> 2, core |-> 9],
                      [pad |-> 1, core |-> 50]}]

\* validateForm(fieldIds) (script.js 865-873) with `values` in the fields:
\* each validate call displays its field's errors; the validate call made
\* last is the one on the last field.
ValidateForm(fieldIds, values) ==
    LET run == validateFormLoop(fieldIds, values, TRUE, fieldErrors)
        last == fieldIds[Len(fieldIds)]
    IN  /\ fieldErrors' = run.shown
        /\ fieldDom' = validateFormIn(fieldDom, fieldParent, fieldIds, values)
        /\ validatedForm' = [fieldIds |-> fieldIds, result |-> run.isValid]
        /\ validated' =
               IF fieldIds = <<>> THEN validated
               ELSE [fieldId |-> last, value |-> values[last],
                     result |-> Len(validate(last, values[last])) = 0]
        /\ UNCHANGED notValidVars

NextValidateForm ==
    \E fieldIds \in FieldIdLists, values \in FormValues :
        ValidateForm(fieldIds, values)

NextValidate ==
    \E fieldId \in DOMAIN rules, value \in FieldValues :
        ValidateField(fieldId, value)

(***************************************************************************)
(* Autosave (script.js 558-575).  A snapshot is the text                   *)
(* JSON.stringify({data, timestamp}) under the key autosave_<section>.  A  *)
(* text is a sequence of tokens: a punctuation mark, a character of a      *)
(* string, a quoted key with its colon, a number.  The textarea's section  *)
(* saves a string, the form's section an object of strings.                *)
(***************************************************************************)
Sections == {"summarization", "learning-path"}

DataChars == {"a", "\"", "\\"}

RECURSIVE DataStringsOfLen(_)
DataStringsOfLen(n) ==
    IF n = 0 THEN {<<>>}
    ELSE {<<ch>> \o str : ch \in DataChars, str \in DataStringsOfLen(n - 1)}

DataStrings == UNION {DataStringsOfLen(n) : n \in 0..MaxDataLen}

\* textarea.value, and what getLearningPathFormData() returns (script.js
\* 577-586), with two of the form's controls.
DataOf(section) ==
    IF section = "summarization"
    THEN [type : {"string"}, value : DataStrings]
    ELSE [type : {"form"}, experience : {<<"a">>},
          interests : {<<>>, <<"\"">>}]

\* JSON.stringify of a string: quotes around it, a backslash before each
\* quote and backslash.
RECURSIVE quote(_)
quote(str) ==
    IF str = <<>> THEN <<>>
    ELSE (IF Head(str) \in {"\"", "\\"} THEN <<"\\", Head(str)>>
          ELSE <<Head(str)>>) \o quote(Tail(str))

stringifyString(str) == <<"\"">> \o quote(str) \o <<"\"">>

stringifyData(data) ==
    IF data.type = "string" THEN stringifyString(data.value)
    ELSE <<"{", "\"experience\":">> \o stringifyString(data.experience)
         \o <<",", "\"interests\":">> \o stringifyString(data.interests)
         \o <<"}">>

\* JSON.stringify({data, timestamp: Date.now()}) (script.js 559-562).
JSON_stringifySnapshot(data, t) ==
    <<"{", "\"data\":">> \o stringifyData(data)
    \o <<",", "\"timestamp\":", ToString(t)>> \o <<"}">>

\* What JSON.parse makes of a text: a value, or a SyntaxError.
SyntaxError == [type |-> "SyntaxError"]

\* The string literal that starts at text[i]: its value and the position
\* after its closing quote, or SyntaxError.
RECURSIVE scanString(_, _, _)
scanString(text, i, acc) ==
    IF i > Len(text) THEN SyntaxError
    ELSE IF text[i] = "\"" THEN [type |-> "string", value |-> acc, next |-> i + 1]
    ELSE IF text[i] = "\\"
    THEN IF i + 1 <= Len(text) /\ text[i + 1] \in {"\"", "\\"}
         THEN scanString(text, i + 2, acc \o <<text[i + 1]>>)
         ELSE SyntaxError
    ELSE IF text[i] \in DataChars
    THEN scanString(text, i + 1, acc \o <<text[i]>>)
    ELSE SyntaxError

parseString(text, i) ==
    IF i <= Len(text) /\ text[i] = "\"" THEN scanString(text, i + 1, <<>>)
    ELSE SyntaxError

Expect(text, i, token) == i <= Len(text) /\ text[i] = token

\* The value that starts at text[i]: a string, or the object of the form.
parseData(text, i) ==
    IF Expect(text, i, "{")
    THEN IF ~Expect(text, i + 1, "\"experience\":") THEN SyntaxError
         ELSE LET e == parseString(text, i + 2)
              IN  IF e = SyntaxError THEN SyntaxError
                  ELSE IF ~(Expect(text, e.next, ",")
                            /\ Expect(text, e.next + 1, "\"interests\":"))
                  THEN SyntaxError
                  ELSE LET n == parseString(text, e.next + 2)
                       IN  IF n = SyntaxError THEN SyntaxError
                           ELSE IF ~Expect(text, n.next, "}")
                           THEN SyntaxError
                           ELSE [type |-> "form", experience |-> e.value,
                                 interests |-> n.value, next |-> n.next + 1]
    ELSE parseString(text, i)

Numerals == {ToString(n) : n \in 0..9}
numberOf(token) == CHOOSE n \in 0..9 : ToString(n) = token

withoutNext(v) ==
    IF v.type = "string" THEN [type |-> "string", value |-> v.value]
    ELSE [type |-> "form", experience |-> v.experience,
          interests |-> v.interests]

\* JSON.parse of the texts the model stores: a snapshot, the literal null,
\* a number, the empty object; anything else is a SyntaxError.
JSON_parse(text) ==
    IF text = <<"null">> THEN [type |-> "null"]
    ELSE IF text = <<"{", "}">> THEN [type |-> "object"]
    ELSE IF Len(text) = 1 /\ text[1] \in Numerals
    THEN [type |-> "number", value |-> numberOf(text[1])]
    ELSE IF ~(Expect(text, 1, "{") /\ Expect(text, 2, "\"data\":"))
    THEN SyntaxError
    ELSE LET d == parseData(text, 3)
         IN  IF d = SyntaxError THEN SyntaxError
             ELSE IF ~(/\ Len(text) = d.next + 3
                       /\ text[d.next] = ","
                       /\ text[d.next + 1] = "\"timestamp\":"
                       /\ text[d.next + 2] \in Numerals
                       /\ text[d.next + 3] = "}")
             THEN SyntaxError
             ELSE [type |-> "snapshot", data |-> withoutNext(d),
                   timestamp |-> numberOf(text[d.next + 2])]

NoItem == <<"<no item>">>
Null == [type |-> "null"]

\* autoSave(section, data) (script.js 558-563).
autoSave(store, section, data, t) ==
    [store EXCEPT ![section] = JSON_stringifySnapshot(data, t)]

\* A loadAutoSave that discards whatever it finds.
loadAutoSave_discarding(store, section) ==
    LET saved == store[section]
    IN  IF saved = NoItem \/ saved = <<>> \/ JSON_parse(saved) = SyntaxError
        THEN [returned |-> Null, store |-> [store EXCEPT ![section] = NoItem]]
        ELSE [returned |-> JSON_parse(saved),
              store |-> [store EXCEPT ![section] = NoItem]]

\* loadAutoSave(section) (script.js 565-575): what it returns and what it
\* leaves in the storage.  An absent item and the empty text are falsy.
loadAutoSave(store, section) ==
    LET saved == store[section]
    IN  IF saved = NoItem \/ saved = <<>>
        THEN [returned |-> Null, store |-> store]
        ELSE IF JSON_parse(saved) = SyntaxError
        THEN [returned |-> Null, store |-> [store EXCEPT ![section] = NoItem]]
        ELSE [returned |-> JSON_parse(saved), store |-> store]

NoLoad == [section |-> "", discarded |-> FALSE, returned |-> Null]

InitSave ==
    /\ storage = [section \in Sections |-> NoItem]
    /\ time = 0
    /\ passes = 0
    /\ lastLoad = NoLoad

\* Time passes.
Pass ==
    /\ passes < MaxPasses
    /\ passes' = passes + 1
    /\ time' = time + 1
    /\ UNCHANGED <<storage, lastLoad, notSaveVars>>

AutoSave(section, data) ==
    /\ storage' = autoSave(storage, section, data, time)
    /\ UNCHANGED <<time, passes, lastLoad, notSaveVars>>

LoadAutoSave(section) ==
    /\ lastLoad' = [section |-> section,
                    discarded |->
                        loadAutoSave(storage, section).store # storage,
                    returned |-> loadAutoSave(storage, section).returned]
    /\ storage' = loadAutoSave(storage, section).store
    /\ UNCHANGED <<time, passes, notSaveVars>>

\* The texts something other than autoSave leaves under a key: a snapshot
\* cut short, the empty text, a JSON text that is no snapshot.
RECURSIVE Prefixes(_)
Prefixes(text) ==
    IF text = <<>> THEN {<<>>}
    ELSE {text} \cup Prefixes(SubSeq(text, 1, Len(text) - 1))

ForeignTexts == {<<"null">>, <<"{", "}">>, <<"7">>}

\* localStorage is shared by every script of the origin and is editable by
\* the user: the item is replaced by a text autoSave did not write.
Overwrite(section) ==
    /\ storage[section] # NoItem
    /\ \E text \in (Prefixes(storage[section]) \ {storage[section]})
                    \cup ForeignTexts :
           storage' = [storage EXCEPT ![section] = text]
    /\ UNCHANGED <<time, passes, lastLoad, notSaveVars>>

NextSave ==
    \/ Pass
    \/ \E section \in Sections :
           \E data \in DataOf(section) : AutoSave(section, data)
    \/ \E section \in Sections : LoadAutoSave(section)
    \/ \E section \in Sections : Overwrite(section)

(***************************************************************************)
(* The debounced autosave listeners (script.js 74-80, 520-541).  Each      *)
(* control has its own Utils.debounce closure, so its own timeoutId.  A    *)
(* timer runs when it is due: time does not pass beyond a pending timer    *)
(* and no event is dispatched at the instant a timer is due.               *)
(***************************************************************************)
DEBOUNCE_DELAY == 300
AUTO_SAVE_DELAY == 2000

\* The textarea of the summarization tab and two controls of the
\* learning-path form.
AutoSaveFields == {"summarize-text", "experience-level", "interests"}

SectionOf(field) ==
    IF field = "summarize-text" THEN "summarization" ELSE "learning-path"

DelayOf(field) ==
    IF field = "summarize-text" THEN DEBOUNCE_DELAY ELSE AUTO_SAVE_DELAY

ValuesOf(field) ==
    CASE field = "summarize-text" -> DataStrings
      [] field = "experience-level" -> {<<>>, <<"a">>}
      [] field = "interests" -> {<<>>, <<"\"">>}

\* What the listener of a field saves when its timer runs: textarea.value,
\* or getLearningPathFormData() (script.js 525, 538, 577-586).
DataNow(values, field) ==
    IF field = "summarize-text"
    THEN [type |-> "string", value |-> values["summarize-text"]]
    ELSE [type |-> "form", experience |-> values["experience-level"],
          interests |-> values["interests"]]

\* A debounce that leaves the pending timer alone.
debounce_noClear(timers, t, delay) == timers \cup {t + delay}

\* The function Utils.debounce returns, called at time t (script.js 76-79):
\* the pending timer is cleared and one is set.
debounce(timers, t, delay) == {t + delay}

NoEvent == [last |-> -1, run |-> 0, writes |-> 0]

InitDebounce ==
    /\ fieldValue = [field \in AutoSaveFields |-> <<>>]
    /\ debTimers = [field \in AutoSaveFields |-> {}]
    /\ inputLog = [field \in AutoSaveFields |-> NoEvent]
    /\ nEvents = 0

PendingTimers == UNION {debTimers[field] : field \in AutoSaveFields}

\* The tab of the field has been initialized: its listener is attached
\* (script.js 505-541).
ListenerAttached(field) ==
    /\ SectionOf(field) \in DOMAIN tabs
    /\ tabs[SectionOf(field)].initialized

\* The user changes a control: its value changes and its 'input' or
\* 'change' listener runs.  The run of events grows when this event follows
\* the previous one of the field by less than the delay.
InputEvent(field, value) ==
    /\ nEvents < MaxEvents
    /\ nEvents' = nEvents + 1
    /\ \A due \in PendingTimers : time < due
    /\ fieldValue' = [fieldValue EXCEPT ![field] = value]
    /\ IF ListenerAttached(field)
       THEN /\ debTimers' = [debTimers EXCEPT ![field] =
                                 debounce(@, time, DelayOf(field))]
            /\ inputLog' = [inputLog EXCEPT ![field] =
                   [last |-> time,
                    run |-> IF @.last >= 0 /\ time - @.last < DelayOf(field)
                            THEN @.run + 1 ELSE 1,
                    writes |-> 0]]
       ELSE UNCHANGED <<debTimers, inputLog>>
    /\ UNCHANGED <<storage, time, passes, tabVars, notDebVars>>

\* A timer of a field's listener runs: autoSave(section, data) with the data
\* of this moment (script.js 523-526, 537-539, 558-563).
DebounceTimer(field) ==
    /\ \E due \in debTimers[field] :
           /\ due <= time
           /\ debTimers' = [debTimers EXCEPT ![field] = @ \ {due}]
    /\ storage' = autoSave(storage, SectionOf(field),
                           DataNow(fieldValue, field), time)
    /\ inputLog' = [inputLog EXCEPT ![field].writes = @ + 1]
    /\ UNCHANGED <<fieldValue, nEvents, time, passes, tabVars, notDebVars>>

\* Time passes, up to the next pending timer at most.
Wait(d) ==
    /\ passes < MaxWaits
    /\ passes' = passes + 1
    /\ \A due \in PendingTimers : time + d <= due
    /\ time' = time + d
    /\ UNCHANGED <<storage, debVars, tabVars, notDebVars>>

NextAutoSave ==
    \/ \E field \in AutoSaveFields :
           \E value \in ValuesOf(field) : InputEvent(field, value)
    \/ \E field \in AutoSaveFields : DebounceTimer(field)
    \/ \E d \in {1, DEBOUNCE_DELAY - 1, AUTO_SAVE_DELAY - 1} : Wait(d)
    \/ SwitchTab("learning-path")

(***************************************************************************)
(* ProgressIndicator (script.js 340-396) on a container that exists.  The  *)
(* indicator keeps a reference to the bar it created last; bars are nodes  *)
(* 1, 2, ... of the container.                                             *)
(***************************************************************************)
Percentages == (0 - MaxExcess)..(100 + MaxExcess)

NoBar == 0

Math_min(a, b) == IF a < b THEN a ELSE b
Math_max(a, b) == IF a > b THEN a ELSE b
\* Math.round of an integer.
Math_round(x) == x

\* update(percentage, title) (script.js 363-376): the width of .progress-fill
\* and the number in .progress-percentage.
update(bar, percentage) ==
    IF bar.node = NoBar THEN bar
    ELSE [bar EXCEPT !.width = Math_min(100, Math_max(0, percentage)),
                     !.text = Math_round(percentage)]

InitBar ==
    /\ progress = [node |-> NoBar, width |-> 0, text |-> 0, opacity |-> 1,
                   created |-> 0]
    /\ barsAttached = {}
    /\ barTimers = [remove |-> 0, fade |-> 0]

\* create(title) (script.js 345-361).
BarCreate ==
    /\ progress.created < MaxBars
    /\ progress' = [node |-> progress.created + 1, width |-> 0, text |-> 0,
                    opacity |-> 1, created |-> progress.created + 1]
    /\ barsAttached' = barsAttached \cup {progress.created + 1}
    /\ UNCHANGED <<barTimers, notBarVars>>

BarUpdate(percentage) ==
    /\ progress' = update(progress, percentage)
    /\ UNCHANGED <<barsAttached, barTimers, notBarVars>>

\* complete(message) (script.js 380-384): update(100), then remove() in
\* 2000 ms.
BarComplete ==
    /\ barTimers.remove < MaxBarTimers
    /\ progress' = update(progress, 100)
    /\ barTimers' = [barTimers EXCEPT !.remove = @ + 1]
    /\ UNCHANGED <<barsAttached, notBarVars>>

\* remove() run by the timer of complete() (script.js 386-395): the bar
\* fades and a second timer is set.
BarRemoveTimer ==
    /\ barTimers.remove > 0
    /\ IF progress.node # NoBar /\ progress.node \in barsAttached
       THEN /\ barTimers.fade < MaxBarTimers
            /\ progress' = [progress EXCEPT !.opacity = 0]
            /\ barTimers' = [remove |-> barTimers.remove - 1,
                             fade |-> barTimers.fade + 1]
       ELSE /\ barTimers' = [barTimers EXCEPT !.remove = @ - 1]
            /\ UNCHANGED progress
    /\ UNCHANGED <<barsAttached, notBarVars>>

\* The timer of remove() (script.js 389-393): the bar the indicator refers
\* to now is detached.
BarFadeTimer ==
    /\ barTimers.fade > 0
    /\ barTimers' = [barTimers EXCEPT !.fade = @ - 1]
    /\ barsAttached' = barsAttached \ {progress.node}
    /\ UNCHANGED <<progress, notBarVars>>

NextBar ==
    \/ BarCreate
    \/ \E percentage \in Percentages : BarUpdate(percentage)
    \/ BarComplete
    \/ BarRemoveTimer
    \/ BarFadeTimer

Init == InitLoading /\ InitCache /\ InitTabs /\ InitOps /\ InitRender
        /\ InitValidate /\ InitHealth /\ InitModal
        /\ InitNotes /\ InitSave /\ InitBar /\ InitDebounce

\* The markup of the page: the three tabs the handlers render to, each
\* validated field in a group of its own.
PageTabs == <<"summarization", "document-qa", "learning-path">>
InitPage == Init /\ tabOrder = PageTabs /\ fieldParent = OwnParents

\* The three tabs with the validated fields grouped in any way.
InitGroups == Init /\ tabOrder = PageTabs

SpecLoading == InitPage /\ [][NextLoading]_vars

SpecCache == InitPage /\ [][NextCache]_vars

\* The TabManager over every markup.
SpecTabs == Init /\ [][NextTabs]_vars

SpecOps == InitPage /\ [][NextOps]_vars

SpecHandlers == InitPage /\ [][NextHandlers]_vars

SpecFiles == InitPage /\ [][NextFiles]_vars

\* The handlers of the text forms alone.
NextForms ==
    \/ \E kind \in {"summarize", "generate"}, value \in FieldValues :
           SubmitText(kind, value)
    \/ \E value \in FieldValues : SubmitAsk(value)
    \/ \E op \in ops, outcome \in Outcomes : OpResponse(op, outcome)
    \/ DefineLegacyGlobals

SpecForms == InitPage /\ [][NextForms]_vars

SpecRender == InitPage /\ [][NextRender]_vars

SpecValidate == InitPage /\ [][NextValidate]_vars

SpecValidateForm == InitPage /\ [][NextValidateForm]_vars

\* The validator over every grouping of the fields.
SpecFieldErrors == InitGroups /\ [][NextValidate]_vars

SpecHealth == InitPage /\ [][NextHealth]_vars

SpecModal == InitPage /\ [][NextModal]_vars

SpecNotes == InitPage /\ [][NextNotes]_vars

SpecSave == InitPage /\ [][NextSave]_vars

SpecBar == InitPage /\ [][NextBar]_vars

SpecAutoSave == InitPage /\ [][NextAutoSave]_vars

\* Timers that are set fire.
SpecNotesLive == SpecNotes /\ WF_vars(NoteTimers)

(***************************************************************************)
(* Properties of LoadingManager (SpecLoading).                             *)
(***************************************************************************)
\* C1: after any sequence of show(), hide(token) and hideAll() calls the
\* overlay is visible if and only if the set of live loader tokens is
\* non-empty.
C1_OverlayVisibleIffLive ==
    (~loading.hidden) <=> (loading.activeLoaders # {})

\* C1 witness: one token has been hidden while another is still live.
C1_Witness ==
    /\ stale # {}
    /\ loading.activeLoaders # {}
    /\ ~loading.hidden

\* C2: while a show() call is outstanding (its token returned and not yet
\* hidden by its caller), the overlay is visible: hiding A alone, with B
\* outstanding, does not hide it.
C2_OutstandingKeepsOverlay ==
    (\E c \in Callers : held[c] # NoToken) => ~loading.hidden

(***************************************************************************)
(* Properties of APIClient.request (SpecCache).                            *)
(***************************************************************************)
\* This step is a request(req) call, served or suspended in fetch.
Issued(req) ==
    /\ nCalls' = nCalls + 1
    /\ IF calls' = calls
       THEN lastCall'.req = req
       ELSE \E c \in calls' \ calls : c.req = req

\* This step is a request() call that returned a cached payload.
Served == nCalls' = nCalls + 1 /\ calls' = calls /\ lastCall'.via = "cache"

\* This step settles the suspended call `call`.
Settled(call) == call \in calls /\ calls' = calls \ {call}

\* The successes of calls under `key`, as indices of the log.
SuccessesOf(key) == {i \in 1..Len(successes) : successes[i].key = key}

LatestSuccess(key) ==
    successes[CHOOSE i \in SuccessesOf(key) :
                  \A j \in SuccessesOf(key) : j <= i]

\* C3 as stated: a call made less than the TTL after a success of a
\* non-mutating call with the same key returns that success's payload and
\* issues no network call.
C3_ReturnsThatPayload ==
    [][\A req \in Requests :
          (Issued(req) /\ NonMutating(req)) =>
              \A i \in SuccessesOf(cacheKey(req)) :
                  (now - successes[i].at < TTL) =>
                      (Served /\ lastCall'.data = successes[i].data)]_vars

\* C3 as amended: such a call issues no network call and returns the payload
\* of the latest success under its key.
C3_ReturnsLatestPayload ==
    [][\A req \in Requests :
          (Issued(req) /\ NonMutating(req)) =>
              \A i \in SuccessesOf(cacheKey(req)) :
                  (now - successes[i].at < TTL) =>
                      /\ Served
                      /\ lastCall'.data = LatestSuccess(cacheKey(req)).data]_vars

\* C3 witness: two calls under one key succeeded with different payloads and
\* a later call was served the second one from the cache.
C3_Witness ==
    /\ lastCall.via = "cache"
    /\ \E i, j \in SuccessesOf(cacheKey(lastCall.req)) :
          /\ i < j
          /\ successes[i].data # successes[j].data
          /\ lastCall.data = successes[j].data

\* C4: an entry whose age has reached the TTL is never returned: the call
\* goes to the network; when that call succeeds the entry under its key is
\* the fresh payload with the time of the response; when it fails the caller
\* gets the failure, no payload, and the cache is as it was.
C4_ExpiredNeverServed ==
    [][/\ \A req \in Requests :
            (Issued(req) /\ Expired(cache, req, now)) =>
                /\ ~Served
                /\ \E c \in calls' \ calls : c.req = req /\ c.expired
       /\ \A call \in calls :
            (Settled(call) /\ call.expired) =>
                /\ lastCall'.req = call.req
                /\ lastCall'.via = "network"
                /\ lastCall'.result = "ok" =>
                       cache'[cacheKey(call.req)] =
                           [data |-> lastCall'.data, timestamp |-> now]
                /\ lastCall'.result # "ok" =>
                       /\ lastCall'.data = NoData
                       /\ cache' = cache]_vars

\* C4 witness: a call that found an expired entry has succeeded and the entry
\* now holds its payload.
C4_Witness ==
    /\ lastCall.expired
    /\ lastCall.via = "network"
    /\ lastCall.result = "ok"
    /\ cache[cacheKey(lastCall.req)].data = lastCall.data
    /\ cache[cacheKey(lastCall.req)].timestamp >= TTL

MutatingMethods == {"POST", "PUT", "PATCH", "DELETE"}

\* C5: a request with an explicit mutating method (POST, PUT, PATCH, DELETE)
\* is never answered from the cache and never creates or updates an entry.
C5_MutatingNeverCached ==
    /\ lastCall.via = "cache" =>
           lastCall.req.options.method \notin MutatingMethods
    /\ \A r \in Requests :
           r.options.method \in MutatingMethods =>
               cache[cacheKey(r)] = NoEntry


(***************************************************************************)
(* Properties of TabManager (SpecTabs).                                    *)
(***************************************************************************)
\* C6: across any sequence of switchTab calls each tab's one-time
\* initialization runs at most once, only when the tab is activated for the
\* first time, and its initialized flag goes from false to true once and
\* never back.
C6_InitializedOnce ==
    /\ [](\A t \in DOMAIN tabs :
            /\ initRuns[t] <= 1
            /\ tabs[t].initialized <=> initRuns[t] = 1)
    /\ [][\A t \in DOMAIN tabs :
            /\ tabs[t].initialized => tabs'[t].initialized
            /\ initRuns'[t] # initRuns[t] =>
                   /\ initRuns[t] = 0 /\ initRuns'[t] = 1
                   /\ ~tabs[t].initialized
                   /\ activeTab # t /\ activeTab' = t
            /\ (activeTab' = t /\ activeTab # t) => tabs'[t].initialized]_vars

\* C6 witness: a tab initialized earlier is active again after another tab
\* was active, and its setup has run once.
C6_Witness ==
    \E t \in DOMAIN tabs, u \in DOMAIN tabs :
        /\ t # u
        /\ Len(tabOrder) > 0 /\ tabOrder[1] = t
        /\ activeTab = t
        /\ tabs[u].initialized
        /\ initRuns[t] = 1

\* The tab recorded as active carries the active marker on its button and
\* its content, and no other tab carries it.
ExactlyOneActive ==
    \E t \in DOMAIN tabs :
        /\ activeTab = t
        /\ tabs[t].button /\ tabs[t].content
        /\ \A u \in DOMAIN tabs \ {t} : ~tabs[u].button /\ ~tabs[u].content

\* C7: in every state reached from construction by switchTab(id) calls with
\* any id, exactly one tab is active and it is the one recorded as activeTab
\* (stated here for a markup that declares at least one tab).
C7_ExactlyOneActiveTab == Len(tabOrder) > 0 => ExactlyOneActive

\* The loader tokens of the handlers suspended in their remote call.
OpTokens == {op.token : op \in ops}

\* C8: a handler that acquired a loader token releases that token when its
\* remote call completes, whatever the outcome (success, backend failure,
\* non-2xx status, transport failure, rendering that throws): a handler
\* that leaves the set of suspended handlers leaves no live token of its
\* own behind, every live token belongs to a suspended handler, and with no
\* handler suspended the overlay is hidden.
C8_TokenReleasedOnCompletion ==
    /\ [](/\ loading.activeLoaders \subseteq OpTokens
          /\ ops = {} => loading.hidden /\ loading.activeLoaders = {})
    /\ [][\A op \in ops :
              op \notin ops' => op.token \notin loading'.activeLoaders]_vars

\* A summarize call that ended in a non-2xx status, nothing left in flight.
C8_Witness ==
    /\ ops = {}
    /\ nOps > 0
    /\ lastNote = NoteFor("summarize", "http")
    /\ loading.hidden
    /\ loading.activeLoaders = {}

\* The submits the validator rejects, and the questions askQuestion rejects.
InvalidSubmits ==
    {sv \in {"summarize", "generate"} \X FieldValues :
        ~validateForm(<<FieldOf(sv[1])>>, [f \in {FieldOf(sv[1])} |-> sv[2]])}
EmptyQuestions == {value \in FieldValues : length(trim(value)) = 0}

\* C9: a submit whose field fails validation (summarize, generate) or whose
\* question is empty (ask) acquires no loader token and sends nothing: the
\* step that handles it leaves the LoadingManager and the calls in flight
\* as they were, and the validated field shows a message.
C9_InvalidSubmitSendsNothing ==
    [][/\ \A sv \in InvalidSubmits :
              SubmitText(sv[1], sv[2])
              => /\ loading' = loading
                 /\ ops' = ops
                 /\ nOps' = nOps
                 /\ fieldErrors'[FieldOf(sv[1])] # NoMessage
       /\ \A value \in EmptyQuestions :
              SubmitAsk(value)
              => loading' = loading /\ ops' = ops /\ nOps' = nOps]_vars

\* An empty learning goal was submitted: the message is shown, nothing was
\* sent and the overlay never appeared.
C9_Witness ==
    /\ fieldErrors["learning-goal"] = "Learning goal is required"
    /\ nOps = 0
    /\ ops = {}
    /\ loading = LoadingManager_new

\* C10: a file with an unsupported extension is never sent: no upload in
\* flight carries a file whose extension is outside SUPPORTED_FILE_TYPES.
C10_UnsupportedNeverUploaded ==
    \A op \in ops :
        op.kind = "upload" => fileExtension(op.file) \in SUPPORTED_FILE_TYPES

\* The characters that end the text of a place in the markup: a tag opens in
\* element content, a quote closes the attribute or the script string in it.
Breaks(context) ==
    IF context = "content" THEN {"<", ">"} ELSE {"\"", "'"}

\* C11: every backend string a rendering function inserts is escaped for
\* the place it is inserted at, so what is inserted contains no character
\* that ends the text there: it renders as literal text.
C11_InsertedTextIsLiteral ==
    \A i \in DOMAIN region :
        \A j \in DOMAIN region[i].text :
            region[i].text[j] \notin Breaks(region[i].context)

\* The rules of a field whose predicate the value fails, by position.
FailingRules(fieldId, value) ==
    {i \in 1..Len(rules[fieldId]) : ~RulePasses(rules[fieldId][i], value)}

\* C12: validate returns true iff every rule of the field holds for the
\* value, and when it returns false the message displayed at the field is
\* that of the first failing rule in registration order (none is displayed
\* when it returns true).
C12_FirstFailingRuleShown ==
    validated # NoValidation =>
        LET failing == FailingRules(validated.fieldId, validated.value)
            first == CHOOSE i \in failing : \A j \in failing : i <= j
        IN  /\ validated.result <=> failing = {}
            /\ fieldErrors[validated.fieldId] =
                   IF failing = {} THEN NoMessage
                   ELSE rules[validated.fieldId][first].message

\* A text of 9 characters: the first rule holds, the second fails and its
\* message is the one shown.
C12_Witness ==
    /\ validated.fieldId = "summarize-text"
    /\ validated.value.core = 9
    /\ ~validated.result
    /\ fieldErrors["summarize-text"] = rules["summarize-text"][2].message

\* The outcomes of a fetch that request() reports as a failure.
Failures == {outcome \in Outcomes : outcome.kind # "ok"}

\* C13: when the fetch of a request() call ends in a non-2xx status or a
\* transport failure, the call throws (it returns no payload), what it
\* throws carries the status of the response, and the cache is as before.
C13_FailureRaisedCacheKept ==
    [][\A call \in calls, outcome \in Failures :
           Settled(call) /\ Response(call, outcome)
           => /\ lastCall'.req = call.req
              /\ lastCall'.result # "ok"
              /\ lastCall'.data = NoData
              /\ lastCall'.error # NoError
              /\ outcome.kind = "http"
                 => \E i \in DOMAIN lastCall'.error :
                        lastCall'.error[i] = ToString(outcome.status)
              /\ cache' = cache]_vars

\* A call answered 500 threw "HTTP 500" while an entry stored before is
\* still in the cache.
C13_Witness ==
    /\ lastCall.via = "network"
    /\ lastCall.result = "http"
    /\ lastCall.error = <<"HTTP", "500">>
    /\ \E k \in Keys : cache[k] # NoEntry

\* What the claim says of a healthCheck() call that has ended.
HealthProbeContract ==
    lastHealth.probe = "healthCheck" =>
        IF lastHealth.failed
        THEN /\ apiStatus = "error"
             /\ indicator = "API Offline"
             /\ lastHealth.thrown # NoError
             /\ lastHealth.returned = NoData
        ELSE /\ apiStatus = "healthy"
             /\ indicator = "API Online"
             /\ lastHealth.returned \in Payloads
             /\ lastHealth.thrown = NoError

\* C14: a healthCheck() call ends with the status 'healthy' and the payload
\* returned, or with the status 'error' and the failure thrown again; the
\* status is one of unknown, healthy, error; and after a health check that
\* failed, the one made on load included, the status displayed is the
\* failure.
C14_HealthFollowsProbe ==
    /\ apiStatus \in {"unknown", "healthy", "error"}
    /\ HealthProbeContract
    /\ lastHealth.failed => apiStatus = "error" /\ indicator = "API Offline"

\* C15: at most one modal node is attached to the document at any time
\* (so a show() while a modal is open leaves only the node it created).
C15_AtMostOneModal == Cardinality(modalNodes) <= 1

\* C16: every notification node that show() attached is eventually
\* removed from the container, and its id from the registry: once its
\* timers have fired the node is gone and no id maps to it.
C16_EveryNotificationRemoved ==
    \A n \in Nodes :
        (n \in container) ~>
            (n \notin container /\ \A id \in Ids : registry[id] # n)

\* C17: the registered ids and the attached nodes correspond one to one:
\* every registered id maps to an attached node, no two ids map to one
\* node, and every attached node is registered.
C17_RegistryMatchesContainer ==
    /\ \A id \in Ids : registry[id] # NoNode => registry[id] \in container
    /\ \A i, j \in Ids :
           registry[i] # NoNode /\ registry[i] = registry[j] => i = j
    /\ \A n \in container : \E id \in Ids : registry[id] = n

\* C18: a dismiss(id) for an id that is not registered, or whose exit
\* animation is pending, changes neither the registry nor the container;
\* and the auto-dismiss timer of a notification that is already removed
\* changes nothing when it fires.
C18_DismissIdempotent ==
    [][/\ \A id \in Ids :
              NoteDismiss(id)
              => registry' = registry /\ container' = container
       /\ \A id \in Ids :
              NoteDismiss(id) /\ registry[id] = NoNode
              => exitTimers' = exitTimers
       /\ \A timer \in autoTimers :
              NoteAutoDismiss(timer) /\ timer.node \notin container
              => /\ registry' = registry
                 /\ container' = container
                 /\ exitTimers' = exitTimers]_vars

\* C19: switchTab(id) with id the active tab is a no-op: the active tab,
\* the markers and initialized flags of all tabs and the runs of the
\* initializers are as before.
C19_SwitchToActiveIsNoOp ==
    activeTab # NoTab => switchTab(tabManager, activeTab) = tabManager

\* The active tab is not the only one initialized, and switching to it
\* gives the same state.
C19_Witness ==
    /\ activeTab \in DOMAIN tabs
    /\ \E u \in DOMAIN tabs \ {activeTab} : tabs[u].initialized
    /\ switchTab(tabManager, activeTab) = tabManager

\* What the claim accepts: a supported extension and a size within the
\* maximum.
Acceptable(file) ==
    /\ fileExtension(file) \in SUPPORTED_FILE_TYPES
    /\ file.size <= MAX_FILE_SIZE

\* C20: a file picked in the input (listeners attached) is accepted iff its
\* extension is supported and its size within the maximum; accepted, it is
\* the file displayed; rejected, an error notification is shown and both
\* the file displayed and the file an upload would send are as before.
C20_RejectionKeepsAcceptedFile ==
    [][\A file \in Files :
           SelectFile(file) /\ ListenersAttached
           => IF Acceptable(file)
              THEN fileInfo' = file /\ fileInput' = file
              ELSE /\ lastNote'.type = "error"
                   /\ fileInfo' = fileInfo
                   /\ fileInput' = fileInput]_vars

(***************************************************************************)
(* Properties of the handlers' error path (SpecHandlers).                  *)
(***************************************************************************)
\* The outcomes the handlers treat as a failure of the remote call: a
\* transport failure, a non-2xx status, a 2xx payload with success:false.
RemoteFailures ==
    {outcome \in Outcomes : outcome.kind # "ok" \/ outcome.data = "failure"}

\* C21: on any failure of the remote call (transport failure, non-2xx
\* status, 2xx payload with success:false) the handler that made the call
\* ends with an error notification shown, an inline error block in its own
\* output region, and no success notification.
C21_FailureShowsErrorBlock ==
    [][\A op \in ops, outcome \in RemoteFailures :
           op \notin ops' /\ OpResponse(op, outcome)
           => /\ lastNote'.type = "error"
              /\ output' = [region |-> RegionOf(op.kind), block |-> "error"]]_vars

(***************************************************************************)
(* Properties of the autosave (SpecSave).                                  *)
(***************************************************************************)
\* The texts autoSave writes.
SnapshotTexts ==
    {JSON_stringifySnapshot(data, t) :
        data \in DataOf("summarization") \cup DataOf("learning-path"),
        t \in 0..MaxPasses}

\* C22 (as stated): loadAutoSave returns the snapshot of the latest autoSave
\* of the section with the same data; a stored value that is no snapshot
\* yields nothing and is discarded; a snapshot is not discarded.
C22_LoadReturnsSnapshotOrDiscards ==
    /\ \A section \in Sections :
           \A data \in DataOf(section) :
               LET store == autoSave(storage, section, data, time)
               IN  /\ loadAutoSave(store, section).returned =
                          [type |-> "snapshot", data |-> data,
                           timestamp |-> time]
                   /\ loadAutoSave(store, section).store = store
    /\ \A section \in Sections :
           storage[section] \notin SnapshotTexts \cup {NoItem}
           => /\ loadAutoSave(storage, section).returned = Null
              /\ loadAutoSave(storage, section).store[section] = NoItem

\* C22 (amended): the same, where a corrupted value is a non-empty text that
\* JSON.parse rejects; the empty text yields nothing and stays, a text that
\* parses is returned as it is and stays; in every case a load changes the
\* storage of no other section and a second load returns nothing after a
\* first one that returned nothing.
C22_LoadReturnsParsedOrDiscards ==
    /\ \A section \in Sections :
           \A data \in DataOf(section) :
               LET store == autoSave(storage, section, data, time)
               IN  /\ loadAutoSave(store, section).returned =
                          [type |-> "snapshot", data |-> data,
                           timestamp |-> time]
                   /\ loadAutoSave(store, section).store = store
    /\ \A section \in Sections :
           LET saved == storage[section]
               load == loadAutoSave(storage, section)
           IN  /\ \A other \in Sections \ {section} :
                      load.store[other] = storage[other]
               /\ saved \notin {NoItem, <<>>} /\ JSON_parse(saved) = SyntaxError
                  => load.returned = Null /\ load.store[section] = NoItem
               /\ saved \in {NoItem, <<>>}
                  => load.returned = Null /\ load.store = storage
               /\ saved \notin {NoItem, <<>>} /\ JSON_parse(saved) # SyntaxError
                  => load.returned = JSON_parse(saved) /\ load.store = storage
               /\ load.returned = Null
                  => loadAutoSave(load.store, section).returned = Null

\* A snapshot was cut short, loaded and discarded.
C22_Witness ==
    /\ lastLoad.section = "summarization"
    /\ lastLoad.discarded
    /\ lastLoad.returned = Null
    /\ storage["summarization"] = NoItem
    /\ storage["learning-path"] \in SnapshotTexts

(***************************************************************************)
(* Properties of FormValidator.validateForm (SpecValidateForm).            *)
(***************************************************************************)
\* The fields a list names.
Listed(fieldIds) == {fieldIds[i] : i \in 1..Len(fieldIds)}

\* C23: validateForm(fieldIds) runs validate on every listed field, a
\* failing earlier field notwithstanding: after it every listed field shows
\* the first message of its own failing rules (or none), the other fields
\* show what they showed, and it returns true iff no listed field fails.
C23_EveryFieldValidated ==
    \A fieldIds \in FieldIdLists, values \in FormValues :
        LET run == validateFormLoop(fieldIds, values, TRUE, fieldErrors)
        IN  /\ run.isValid <=>
                   \A f \in Listed(fieldIds) : FailingRules(f, values[f]) = {}
            /\ validateForm(fieldIds, values) = run.isValid
            /\ \A f \in DOMAIN rules :
                   run.shown[f] =
                       IF f \notin Listed(fieldIds) THEN fieldErrors[f]
                       ELSE IF FailingRules(f, values[f]) = {} THEN NoMessage
                       ELSE rules[f][CHOOSE i \in FailingRules(f, values[f]) :
                                        \A j \in FailingRules(f, values[f]) :
                                            i <= j].message

\* A form of two fields was validated, both failed and both show their
\* message.
C23_Witness ==
    /\ validatedForm = [fieldIds |-> <<"summarize-text", "learning-goal">>,
                        result |-> FALSE]
    /\ fieldErrors["summarize-text"] = "Text is required for summarization"
    /\ fieldErrors["learning-goal"] = "Learning goal is required"

(***************************************************************************)
(* Properties of concurrent calls under one key (SpecCache).               *)
(***************************************************************************)
\* A call under the key of `req` is suspended in fetch.
InFlightUnder(req) == \E c \in calls : cacheKey(c.req) = cacheKey(req)

\* The entry under every key with a success is the payload of the success
\* that came last, and a success stores its payload with the time it comes.
LastWriterWins ==
    /\ [](\A key \in Keys :
              SuccessesOf(key) # {} =>
                  cache[key].data = LatestSuccess(key).data)
    /\ [][\A call \in calls :
              (/\ Settled(call)
               /\ NonMutating(call.req)
               /\ lastCall'.result = "ok")
              => cache'[cacheKey(call.req)] =
                     [data |-> lastCall'.data, timestamp |-> now]]_vars

\* C24 (as stated): a non-mutating call issued while a call with the same
\* key is in flight is not deduplicated, it issues its own network call;
\* each success writes the cache and the entry stored is the payload of the
\* response that resolved last.
C24_OverlappingCallsEachFetch ==
    /\ [][\A req \in Requests :
              (Issued(req) /\ NonMutating(req) /\ InFlightUnder(req))
              => ~Served /\ \E c \in calls' \ calls : c.req = req]_vars
    /\ LastWriterWins

\* C24 (amended): such a call issues its own network call unless the cache
\* holds a fresh entry under its key when it is issued (stored by a third
\* call that resolved meanwhile), in which case it is served that entry;
\* each success writes the cache and the entry stored is the payload of the
\* response that resolved last, whatever the order of issue.
C24_OverlappingCallsFetchOnMiss ==
    /\ [][\A req \in Requests :
              (Issued(req) /\ NonMutating(req) /\ InFlightUnder(req))
              => IF CacheLookup(cache, req, now) = NoEntry
                 THEN ~Served /\ \E c \in calls' \ calls : c.req = req
                 ELSE Served /\ lastCall'.data = cache[cacheKey(req)].data]_vars
    /\ LastWriterWins

\* Two calls under one key were in flight together and both succeeded, with
\* different payloads: the second success came less than the TTL after the
\* first, so its call was issued before the first one resolved (it would
\* have been served the entry otherwise); the entry holds the payload that
\* came last, and no call is left in flight.
C24_Witness ==
    /\ calls = {}
    /\ \E i, j \in 1..Len(successes) :
           /\ i < j
           /\ \A k \in 1..Len(successes) : k <= j
           /\ successes[i].key = successes[j].key
           /\ successes[j].at - successes[i].at < TTL
           /\ successes[i].data # successes[j].data
           /\ cache[successes[j].key] =
                  [data |-> successes[j].data, timestamp |-> successes[j].at]

(***************************************************************************)
(* Properties of duplicate submissions (SpecHandlers).                     *)
(***************************************************************************)
\* The handlers in flight that took a token of the LoadingManager.
TokenOps == {op \in ops : op.kind \in ApiKinds}

\* C25: with handlers of one operation in flight twice, the overlay stays
\* visible until both have completed and is hidden after the last one, in
\* whichever order they complete: the overlay is visible whenever a handler
\* that took a token is in flight, and hidden when none is.
C25_OverlayUntilLastCompletes ==
    /\ TokenOps # {} => ~loading.hidden
    /\ ops = {} => loading.hidden

(***************************************************************************)
(* Properties of ProgressIndicator (SpecBar).                              *)
(***************************************************************************)
\* C26: whatever integer update() is given, the width of the bar and the
\* percentage displayed are both within 0..100.
C26_WidthAndTextClamped ==
    progress.node # NoBar =>
        /\ progress.width \in 0..100
        /\ progress.text \in 0..100

(***************************************************************************)
(* Properties of the debounced autosave (SpecAutoSave).                    *)
(***************************************************************************)
\* C27: autosave is debounced.  After an event on a field exactly one timer
\* of the field is pending and it is due one delay after the field's last
\* event; nothing is written for the field before it runs and exactly one
\* snapshot has been written once it has run, however many events the run
\* had; the write happens one delay after the last event and stores the
\* data of that moment under the key of the field's section.
C27_OneWriteAfterLastEvent ==
    /\ [](\A field \in AutoSaveFields :
              inputLog[field].last >= 0 =>
                  IF debTimers[field] # {}
                  THEN /\ debTimers[field] =
                              {inputLog[field].last + DelayOf(field)}
                       /\ inputLog[field].writes = 0
                       /\ time <= inputLog[field].last + DelayOf(field)
                  ELSE /\ inputLog[field].writes = 1
                       /\ time >= inputLog[field].last + DelayOf(field))
    /\ [][\A field \in AutoSaveFields :
              inputLog'[field].writes = inputLog[field].writes + 1
              => /\ time = inputLog[field].last + DelayOf(field)
                 /\ time' = time
                 /\ storage'[SectionOf(field)] =
                        JSON_stringifySnapshot(DataNow(fieldValue, field),
                                               time)
                 /\ \A other \in Sections \ {SectionOf(field)} :
                        storage'[other] = storage[other]]_vars

\* A run of two events on the textarea, the second less than the delay
\* after the first, was followed by one write, 300 ms after the second
\* event, of the value typed last.
C27_Witness ==
    /\ inputLog["summarize-text"].run >= 2
    /\ inputLog["summarize-text"].writes = 1
    /\ debTimers["summarize-text"] = {}
    /\ fieldValue["summarize-text"] = <<"a">>
    /\ storage["summarization"] =
           JSON_stringifySnapshot(
               [type |-> "string", value |-> <<"a">>],
               inputLog["summarize-text"].last + DEBOUNCE_DELAY)

(***************************************************************************)
(* Properties of what the cache admits (SpecCache).                        *)
(***************************************************************************)
\* C28: a call whose outcome is a failure, a 2xx response whose payload is
\* {success: false} included, never creates or refreshes a cache entry: no
\* entry holds such a payload, and a call that settles with one leaves the
\* cache as it was.
C28_FailurePayloadNeverCached ==
    /\ [](\A key \in Keys :
              cache[key] # NoEntry => cache[key].data # "failure")
    /\ [][\A call \in calls :
              (Settled(call) /\ lastCall'.data = "failure")
              => cache' = cache]_vars

(***************************************************************************)
(* Properties of a modal shown during the exit animation (SpecModal).      *)
(***************************************************************************)
\* C29: the timer of a close() removes the modal that was active when that
\* close() was called and no other node; a modal shown since stays attached
\* and stays the active modal.
C29_CloseTimerRemovesClosedModal ==
    [][(modalTimers # <<>> /\ modalTimers' = Tail(modalTimers))
       => /\ modalNodes' = modalNodes \ {Head(modalTimers)}
          /\ activeModal # Head(modalTimers) => activeModal' = activeModal]_vars

(***************************************************************************)
(* Properties of the health status and the cache (SpecHealth).             *)
(***************************************************************************)
\* C30: healthCheck() reports 'healthy' only when a network request to the
\* health endpoint succeeded during that very call, never on the basis of
\* an earlier response kept in the cache.
C30_HealthyOnlyFromNetwork ==
    (lastHealth.probe = "healthCheck" /\ ~lastHealth.failed)
    => lastHealth.via = "network"

\* C31: switchTab(id) with an id that is not a declared tab leaves the whole
\* tab state unchanged (the previously active tab keeps its active marker
\* and stays the recorded active tab), and a following switchTab to any
\* declared tab, the previously active one included, leaves that tab visibly
\* active.
C31_UndeclaredSwitchChangesNothing ==
    LET after == switchTab(tabManager, UndeclaredTab)
    IN  /\ after = tabManager
        /\ \A t \in DOMAIN tabs :
               LET next == switchTab(after, t)
               IN  /\ next.activeTab = t
                   /\ next.tabs[t].button /\ next.tabs[t].content

(***************************************************************************)
(* Properties of the file selection (SpecFiles).                           *)
(***************************************************************************)
\* `fileInput.files[0]` as uploadDocument reads it (script.js 1154-1166).
uploadReads == fileInput

\* What the claim says of a state: no file is displayed and upload sends
\* nothing, or the displayed file is the file the upload handler reads.
DisplayedIsUploaded ==
    \/ fileInfo = NoFile /\ uploadReads = NoFile
    \/ fileInfo # NoFile /\ fileInfo = uploadReads

\* C32: the file shown in the file-info panel as selected is always the file
\* that upload-document would send: it is so after construction, every input
\* selection, drag-and-drop selection, rejection and removal made with the
\* listeners attached keeps it so, and an upload that is sent carries the
\* displayed file.
C32_DisplayedFileIsUploadedFile ==
    /\ DisplayedIsUploaded
    /\ [][ListenersAttached /\ DisplayedIsUploaded => DisplayedIsUploaded']_vars
    /\ [][\A op \in ops' \ ops : op.kind = "upload" => op.file = fileInfo]_vars

(***************************************************************************)
(* Properties of the handlers' notifications (SpecHandlers).               *)
(***************************************************************************)
\* C33: every completed invocation of an operation handler that passed
\* validation emits exactly one notification, either success or error and
\* never both, and the success notification is emitted only after the result
\* has been rendered without error.
C33_ExactlyOneNotification ==
    [][\A op \in ops, outcome \in Outcomes :
           op \notin ops' /\ OpResponse(op, outcome)
           => LET result == HandlerResult(outcome)
                  notes == notificationsOf(op.kind, result)
              IN  /\ Len(notes) = 1
                  /\ notes[1].type \in {"success", "error"}
                  /\ lastNote' = notes[1]
                  /\ notes[1].type = "success"
                     => /\ result = "success"
                        /\ output' = [region |-> RegionOf(op.kind),
                                      block |-> "result"]]_vars

(***************************************************************************)
(* Properties of the two records of the active tab (SpecTabs).             *)
(***************************************************************************)
\* C34: after any sequence of switchTab calls following construction,
\* AppState.activeTab equals TabManager.activeTab (the session-wide state
\* and the tab manager never disagree about which tab is active), including
\* when the markup declares no tabs or a first tab other than
\* 'summarization'.
C34_AppStateFollowsTabManager == appActiveTab = activeTab

(***************************************************************************)
(* Properties of the fields' error display (SpecFieldErrors).              *)
(***************************************************************************)
\* The inline error elements made for a field that its parent holds.
ErrorElementsOf(dom, field) ==
    LET Own(node) == node.of = field
    IN  SelectSeq(dom.errors[fieldParent[field]], Own)

\* C35: after any sequence of validate calls on any fields, each field
\* carries the invalid marker and an inline error element iff its own most
\* recent validation failed; validating one field never removes or changes
\* the marker or error element of another field, even when fields share a
\* parent element.
C35_OwnMarkerAndErrorOnly ==
    [][\A fieldId \in DOMAIN rules, value \in FieldValues :
           ValidateField(fieldId, value)
           => LET failed == FailingRules(fieldId, value) # {}
              IN  /\ fieldDom'.invalid[fieldId] <=> failed
                  /\ Len(ErrorElementsOf(fieldDom', fieldId)) =
                         IF failed THEN 1 ELSE 0
                  /\ \A other \in DOMAIN rules \ {fieldId} :
                         /\ fieldDom'.invalid[other] = fieldDom.invalid[other]
                         /\ ErrorElementsOf(fieldDom', other) =
                                ErrorElementsOf(fieldDom, other)]_vars

(***************************************************************************)
(* Properties of the loader tokens (SpecLoading).                          *)
(***************************************************************************)
\* The show() calls not yet matched by a hide of their token nor cleared by
\* hideAll.
Outstanding == {c \in Callers : held[c] # NoToken}

\* C36: every token returned by LoadingManager.show() differs from all
\* tokens currently live, so the size of the live-token set always equals
\* the number of show() calls not yet matched by a hide of their token (or
\* cleared by hideAll).
C36_TokensFreshAndCounted ==
    /\ [][\A c \in Callers :
              LoaderShow(c) => held'[c] \notin loading.activeLoaders]_vars
    /\ [](Cardinality(loading.activeLoaders) = Cardinality(Outstanding))

=============================================================================
